---- MODULE Spec2Model ----
(***************************************************************************)
(* Verification model of the myquantworld stock-data service.              *)
(*                                                                         *)
(* The sub-systems of the repository are modelled each with its own        *)
(* specification over a shared set of variables:                           *)
(*   SpecLock   - backend/main.py: update_all_stocks_data and the          *)
(*                asyncio.Lock shared by the service loop, the scheduler   *)
(*                thread and the /api/schedule/test threads;               *)
(*   SpecStore  - data_storage/db_storage.py: save/read of daily bars;     *)
(*   SpecClient - data_fetching/base_client.py: retry, error record,       *)
(*                health check;                                            *)
(*   SpecStale  - backend/main.py: is_data_outdated;                       *)
(*   SpecUpdate - backend/main.py: update_stock_data_incrementally, the    *)
(*                single-stock endpoint and the stocks a full update       *)
(*                covers;                                                  *)
(*   SpecSched  - backend/main.py: the polling loop of the scheduler       *)
(*                thread (SpecSchedFair adds the thread's progress);       *)
(*   SpecSave   - data_storage/db_storage.py: the two save operations and  *)
(*                their rollback;                                          *)
(*   SpecFactory - data_fetching/data_source_factory.py: the configuration *)
(*                object, the client cache and the current client.         *)
(***************************************************************************)
EXTENDS Integers, Sequences, FiniteSets, TLC

VARIABLES
    \* ---- backend/main.py: full update and its mutex -------------------
    locked,                 \* update_lock._locked
    waiters,                \* update_lock._waiters: futures, by runner, FIFO
    futDone,                \* runners whose waiter future has a result
    lockLoop,               \* event loop update_lock is bound to, or NoLoop
    pc,                     \* position of every runner of update_all_stocks_data
    runs,                   \* how many times each runner has been started
    todo,                   \* per runner: codes of the universe still to update
    update_results,         \* per runner: update_results dict (code -> bool)
    requested_stock_codes,  \* module-level set of tracked codes
    last_full_update_time,  \* module-level timestamp, None until first completion
    svcNow,                 \* wall clock read by datetime.now() in main.py
    \* ---- data_fetching/base_client.py: one provider client -------------
    clientNow,              \* time.time(), in seconds
    last_error,             \* self._last_error
    last_error_time,        \* self._last_error_time
    opsDone,                \* contract operations called so far
    ticksDone,              \* idle periods elapsed so far
    lastCall,               \* what the latest contract operation did
    lastHealth,             \* what the latest is_healthy call did
    \* ---- data_storage/db_storage.py and the stock_daily_data table ----
    autoflush,              \* autoflush setting of the SessionLocal factory
    rows,                   \* committed rows of stock_daily_data
    savesDone,              \* save_stock_daily_data calls so far
    lastSave,               \* what the latest save_stock_daily_data call did
    lastRead,               \* what the latest get_stock_daily_data call returned
    \* ---- backend/main.py: is_data_outdated ------------------------------
    today,                  \* datetime.now().date(), as a day number
    lastCheck,              \* what the latest is_data_outdated call did
    \* ---- backend/main.py: incremental, single-stock and full update ----
    updatesDone,            \* update_stock_data_incrementally calls so far
    lastUpdate,             \* what the latest incremental update did
    lastReply,              \* what POST /api/stocks/{code}/update answered last
    fullPc,                 \* position of the full update followed stock by stock
    fullTodo,               \* its all_stock_codes still to update
    fullTracked,            \* requested_stock_codes when it started
    fullResults,            \* its update_results, as the set of (code, success)
    lastFull,               \* what the latest full update did
    \* ---- backend/main.py: run_scheduler -----------------------------------
    schedPc,                \* position of the scheduler thread in its loop
    schedClock,             \* wall clock, in 60 s ticks since the jobs were set up
    schedChecked,           \* clock of the latest schedule.run_pending() call
    nextRun,                \* next_run of each of the four daily jobs
    schedErrorAt,           \* clock of the latest error the loop logged
    \* ---- data_storage/db_storage.py and the stock_basic_info table ------
    stocks,                 \* committed rows of stock_basic_info
    basicSaves,             \* save_stock_basic_info calls so far
    lastBasic,              \* what the latest save_stock_basic_info call did
    \* ---- data_fetching/data_source_factory.py ---------------------------
    cfgFile,                \* content of data_source_config.json
    cfgMem,                 \* DataSourceConfig._config of the factory's config
    clients,                \* DataSourceFactory._clients: cache key -> client
    current_client,         \* DataSourceFactory._current_client
    created,                \* TuShareClient instances constructed so far
    factoryOps,             \* factory operations called so far
    lastOp,                 \* the latest factory operation
    lastConfig,             \* what the latest DataSourceConfig() did
    lastGet,                \* what the latest get_client call did
    lastSwitch,             \* what the latest switch_data_source call did
    lastCurrent,            \* what the latest get_current_client call returned
    \* ---- data_fetching/tushare_adapter.py: one TuShareClient ----------------
    tsClient,               \* its token, TUSHARE_AVAILABLE and whether self.pro is set
    tsOps,                  \* contract operations called on it so far
    lastTs,                 \* what the latest of them did
    \* ---- backend/main.py: GET /api/health and GET /api/stocks/{code}/daily --
    apiCalls,               \* requests answered so far
    lastHealthCheck,        \* what the latest GET /api/health did
    lastDaily,              \* what the latest GET /api/stocks/{code}/daily did
    \* ---- analysis/polar_analyzer.py -------------------------------------
    reportsDone,            \* generate_analysis_report calls so far
    lastReport,             \* what the latest of them was given and returned
    \* ---- backend/manual_update.py: wait_for_update_completion -----------
    waitPc,                 \* where the call is: idle, test, poll, sleep, done
    waitClock,              \* time.time() of the script, seconds
    waitArgs,               \* poll_interval, timeout and start_time of the call
    lastStatus,             \* what the latest check_data_status returned
    waitSent,               \* the HTTP requests the call has sent
    waitResult,             \* what the call returned: "True", "False", or None
    waitsDone,              \* calls started so far
    \* ---- two sessions writing stock_daily_data at once ------------------
    isolation,              \* transaction isolation of the engine's sessions
    fullThread,             \* the thread the full update runs on
    table,                  \* the committed rows of stock_daily_data
    wPc,                    \* per writer: idle, queried, done
    wItem,                  \* per writer: the bar it saves and for which code
    wHit,                   \* per writer: the row its query found, 0 if none
    wSeen,                  \* per writer: the committed rows when it queried
    wOk,                    \* per writer: what its save returned
    commitOrder,            \* the writers in the order of their commits
    wRuns                   \* saves started so far, all writers together

lockVars == <<locked, waiters, futDone, lockLoop, pc, runs, todo,
              update_results, requested_stock_codes, last_full_update_time,
              svcNow>>

clientVars == <<clientNow, last_error, last_error_time, opsDone, ticksDone,
                lastCall, lastHealth>>

storeVars == <<autoflush, rows, savesDone, lastSave, lastRead>>

staleVars == <<today, lastCheck>>

updateVars == <<updatesDone, lastUpdate, lastReply, fullPc, fullTodo,
                fullTracked, fullResults, lastFull>>

schedVars == <<schedPc, schedClock, schedChecked, nextRun, schedErrorAt>>

basicVars == <<stocks, basicSaves, lastBasic>>

factoryVars == <<cfgFile, cfgMem, clients, current_client, created,
                 factoryOps, lastOp, lastConfig, lastGet, lastSwitch,
                 lastCurrent>>

tushareVars == <<tsClient, tsOps, lastTs>>

apiVars == <<apiCalls, lastHealthCheck, lastDaily>>

reportVars == <<reportsDone, lastReport>>

waitVars == <<waitPc, waitClock, waitArgs, lastStatus, waitSent, waitResult, waitsDone>>

raceVars == <<isolation, fullThread, table, wPc, wItem, wHit, wSeen, wOk, commitOrder, wRuns>>

vars == <<lockVars, clientVars, storeVars, staleVars, updateVars, schedVars,
          basicVars, factoryVars, tushareVars, apiVars, reportVars, waitVars, raceVars>>

\* What an action of one sub-system leaves alone.
notLock == <<clientVars, storeVars, staleVars, updateVars, schedVars, basicVars,
             factoryVars, tushareVars, apiVars, reportVars, waitVars, raceVars>>
notClient == <<lockVars, storeVars, staleVars, updateVars, schedVars, basicVars,
               factoryVars, tushareVars, apiVars, reportVars, waitVars, raceVars>>
notStore == <<lockVars, clientVars, staleVars, updateVars, schedVars, basicVars,
              factoryVars, tushareVars, apiVars, reportVars, waitVars, raceVars>>
notStale == <<lockVars, clientVars, storeVars, updateVars, schedVars, basicVars,
              factoryVars, tushareVars, apiVars, reportVars, waitVars, raceVars>>
notSched == <<lockVars, clientVars, storeVars, staleVars, updateVars, basicVars,
              factoryVars, tushareVars, apiVars, reportVars, waitVars, raceVars>>
notBasic == <<lockVars, clientVars, storeVars, staleVars, updateVars, schedVars,
              factoryVars, tushareVars, apiVars, reportVars, waitVars, raceVars>>

None == "None"          \* Python None, where a string stands for the value
NoTime == -1            \* Python None, where a number stands for the value
NoRecord == [none |-> TRUE]     \* Python None, where a record stands for the value

(***************************************************************************)
(* Bounds of the model.                                                    *)
(***************************************************************************)
MaxStarts == 3      \* full updates started in one behaviour, all runners together

(***************************************************************************)
(* backend/main.py: update_all_stocks_data under update_lock.              *)
(*                                                                         *)
(* Runners: two background tasks of POST /api/stocks/update on the service *)
(* event loop, the scheduler thread (schedule.run_pending runs one job at  *)
(* a time, each through asyncio.run) and one /api/schedule/test thread.    *)
(***************************************************************************)
SvcTasks == {"svc1", "svc2"}
Runners == SvcTasks \cup {"sched", "test"}

\* OS thread a runner executes on.
ThreadOf(r) == IF r \in SvcTasks THEN "main" ELSE r

NoLoop == <<"noloop", 0>>

\* Event loop a runner's coroutine runs in: the service loop for background
\* tasks; asyncio.run creates a fresh loop for every call in a thread.
LoopOf(r) == IF r \in SvcTasks THEN <<"main", 0>> ELSE <<r, runs[r]>>

Codes == {"c1", "c2"}
Universes == {<<>>, <<"c1">>, <<"c1", "c2">>}

InGuarded(r) == pc[r] \in {"fetch", "update", "finish"}

\* A coroutine of thread t is between the check and the store of the lock's
\* fast path: no other coroutine of the same thread can run in between
\* (there is no await there), while other threads can.
ThreadBusy(r) ==
    \E q \in Runners \ {r} : ThreadOf(q) = ThreadOf(r) /\ pc[q] = "acq_set"

RECURSIVE SumRuns(_, _)
SumRuns(f, S) ==
    IF S = {} THEN 0
    ELSE LET r == CHOOSE x \in S : TRUE IN f[r] + SumRuns(f, S \ {r})

LockInit ==
    /\ locked = FALSE
    /\ waiters = <<>>
    /\ futDone = {}
    /\ lockLoop = NoLoop
    /\ pc = [r \in Runners |-> "idle"]
    /\ runs = [r \in Runners |-> 0]
    /\ todo = [r \in Runners |-> <<>>]
    /\ update_results = [r \in Runners |-> <<>>]
    /\ requested_stock_codes = {}
    /\ last_full_update_time = NoTime
    /\ svcNow = 0

\* force_update_stocks / a schedule trigger / test_scheduled_task start the
\* coroutine update_all_stocks_data.
Start(r) ==
    /\ UNCHANGED notLock
    /\ pc[r] = "idle"
    /\ SumRuns(runs, Runners) < MaxStarts
    /\ ~ThreadBusy(r)
    /\ runs' = [runs EXCEPT ![r] = @ + 1]
    /\ pc' = [pc EXCEPT ![r] = "acquire"]
    /\ todo' = [todo EXCEPT ![r] = <<>>]
    /\ update_results' = [update_results EXCEPT ![r] = <<>>]
    /\ UNCHANGED <<locked, waiters, futDone, lockLoop, requested_stock_codes,
                   last_full_update_time, svcNow>>

\* Lock.acquire, the test of the fast path:
\*   if not self._locked and (no waiter that is not cancelled): ...
\* Futures are never cancelled here, so the second conjunct is "no waiters".
FastPathFree == ~locked /\ waiters = <<>>

AcquireCheck(r) ==
    /\ UNCHANGED notLock
    /\ pc[r] = "acquire"
    /\ ~ThreadBusy(r)
    /\ pc' = [pc EXCEPT ![r] = IF FastPathFree THEN "acq_set" ELSE "acq_slow"]
    /\ UNCHANGED <<locked, waiters, futDone, lockLoop, runs, todo,
                   update_results, requested_stock_codes,
                   last_full_update_time, svcNow>>

\* Lock.acquire, the store of the fast path: self._locked = True; return.
AcquireSet(r) ==
    /\ UNCHANGED notLock
    /\ pc[r] = "acq_set"
    /\ locked' = TRUE
    /\ pc' = [pc EXCEPT ![r] = "fetch"]
    /\ UNCHANGED <<waiters, futDone, lockLoop, runs, todo, update_results,
                   requested_stock_codes, last_full_update_time, svcNow>>

\* Lock.acquire, the slow path: fut = self._get_loop().create_future().
\* _get_loop binds the lock to the running loop on first use and raises
\* RuntimeError when the lock is bound to another loop; the error leaves
\* update_all_stocks_data (async with is outside its try).
AcquireSlow(r) ==
    /\ UNCHANGED notLock
    /\ pc[r] = "acq_slow"
    /\ ~ThreadBusy(r)
    /\ IF lockLoop = NoLoop \/ lockLoop = LoopOf(r)
       THEN /\ lockLoop' = LoopOf(r)
            /\ waiters' = Append(waiters, r)
            /\ pc' = [pc EXCEPT ![r] = "waiting"]
       ELSE /\ pc' = [pc EXCEPT ![r] = "idle"]
            /\ UNCHANGED <<lockLoop, waiters>>
    /\ UNCHANGED <<locked, futDone, runs, todo, update_results,
                   requested_stock_codes, last_full_update_time, svcNow>>

RemoveWaiter(w, r) == SelectSeq(w, LAMBDA x : x # r)

\* The waiter's loop runs the task again after its future got a result:
\*   finally: self._waiters.remove(fut);  self._locked = True; return True
AcquireResume(r) ==
    /\ UNCHANGED notLock
    /\ pc[r] = "waiting"
    /\ r \in futDone
    /\ ~ThreadBusy(r)
    /\ waiters' = RemoveWaiter(waiters, r)
    /\ futDone' = futDone \ {r}
    /\ locked' = TRUE
    /\ pc' = [pc EXCEPT ![r] = "fetch"]
    /\ UNCHANGED <<lockLoop, runs, todo, update_results,
                   requested_stock_codes, last_full_update_time, svcNow>>

\* Lock.release: self._locked = False; _wake_up_first(): the first waiter's
\* future gets its result unless it is done already.
Released ==
    /\ locked' = FALSE
    /\ futDone' = IF waiters # <<>> THEN futDone \cup {Head(waiters)} ELSE futDone
    /\ UNCHANGED <<waiters, lockLoop>>

\* Mutant: the run that found no universe stamps the time all the same.
FetchUniverse_Stamps(r) ==
    /\ UNCHANGED notLock
    /\ pc[r] = "fetch"
    /\ ~ThreadBusy(r)
    /\ \E u \in Universes, raises \in BOOLEAN :
          IF u = <<>> \/ raises
          THEN /\ Released
               /\ pc' = [pc EXCEPT ![r] = "idle"]
               /\ svcNow' = svcNow + 1
               /\ last_full_update_time' = svcNow + 1
               /\ UNCHANGED <<todo, update_results, requested_stock_codes>>
          ELSE /\ requested_stock_codes' =
                      requested_stock_codes \cup {u[i] : i \in 1..Len(u)}
               /\ todo' = [todo EXCEPT ![r] = u]
               /\ update_results' = [update_results EXCEPT ![r] = <<>>]
               /\ pc' = [pc EXCEPT ![r] = "update"]
               /\ UNCHANGED <<locked, waiters, futDone, lockLoop,
                              last_full_update_time, svcNow>>
    /\ UNCHANGED runs

\* stock_df = ak_client.get_stock_basic_info(); the empty table returns {},
\* an exception (no 'code' column) is caught and returns {}; both leave the
\* async with block, which releases the lock.
FetchUniverse(r) ==
    /\ UNCHANGED notLock
    /\ pc[r] = "fetch"
    /\ ~ThreadBusy(r)
    /\ \E u \in Universes, raises \in BOOLEAN :
          IF u = <<>> \/ raises
          THEN /\ Released
               /\ pc' = [pc EXCEPT ![r] = "idle"]
               /\ UNCHANGED <<todo, update_results, requested_stock_codes>>
          ELSE /\ requested_stock_codes' =
                      requested_stock_codes \cup {u[i] : i \in 1..Len(u)}
               /\ todo' = [todo EXCEPT ![r] = u]
               /\ update_results' = [update_results EXCEPT ![r] = <<>>]
               /\ pc' = [pc EXCEPT ![r] = "update"]
               /\ UNCHANGED <<locked, waiters, futDone, lockLoop>>
    /\ UNCHANGED <<runs, last_full_update_time, svcNow>>

\* One iteration of the for loop: success = await
\* update_stock_data_incrementally(code); update_results[code] = success
\* (False when it raised); await asyncio.sleep(0.2).
UpdateOne(r) ==
    /\ UNCHANGED notLock
    /\ pc[r] = "update"
    /\ todo[r] # <<>>
    /\ ~ThreadBusy(r)
    /\ \E success \in BOOLEAN :
          update_results' = [update_results EXCEPT
                                ![r] = Append(@, <<Head(todo[r]), success>>)]
    /\ todo' = [todo EXCEPT ![r] = Tail(@)]
    /\ pc' = [pc EXCEPT ![r] = IF Len(todo[r]) = 1 THEN "finish" ELSE "update"]
    /\ UNCHANGED <<locked, waiters, futDone, lockLoop, runs,
                   requested_stock_codes, last_full_update_time, svcNow>>

\* last_full_update_time = datetime.now(); return update_results; the lock
\* is released on leaving the async with block.
Finish(r) ==
    /\ UNCHANGED notLock
    /\ pc[r] = "finish"
    /\ ~ThreadBusy(r)
    /\ svcNow' = svcNow + 1
    /\ last_full_update_time' = svcNow + 1
    /\ Released
    /\ pc' = [pc EXCEPT ![r] = "idle"]
    /\ update_results' = [update_results EXCEPT ![r] = <<>>]
    /\ UNCHANGED <<runs, todo, requested_stock_codes>>

\* A step of the coroutine of runner r once it was started.
RunnerStep(r) ==
    \/ AcquireCheck(r)
    \/ AcquireSet(r)
    \/ AcquireSlow(r)
    \/ AcquireResume(r)
    \/ FetchUniverse(r)
    \/ UpdateOne(r)
    \/ Finish(r)

LockNext ==
    \E r \in Runners :
        \/ Start(r)
        \/ AcquireCheck(r)
        \/ AcquireSet(r)
        \/ AcquireSlow(r)
        \/ AcquireResume(r)
        \/ FetchUniverse(r)
        \/ UpdateOne(r)
        \/ Finish(r)

(***************************************************************************)
(* data_fetching/base_client.py: BaseDataClient.                           *)
(*                                                                         *)
(* The implementation behind a contract operation (_get_*_impl) is an      *)
(* input: a script of what its successive calls do, the last entry being   *)
(* repeated for any further call.                                          *)
(***************************************************************************)
max_retries == 3            \* self._max_retries
retry_delay == 2            \* self._retry_delay
HealthWindow == 300         \* seconds, is_healthy

MaxOps == 2        \* contract operations called in one behaviour
MaxTicks == 1      \* idle periods in one behaviour

NetworkErrors == {"ConnectionError", "TimeoutError"}
OtherErrors == {"ValueError"}
Returns == {"frame", "empty_frame", "not_a_frame"}
ImplOutcomes == Returns \cup NetworkErrors \cup OtherErrors
\* Scripts: network failures on the first calls (none, one or two), then an
\* outcome that every later call repeats.
Scripts ==
    {<<o>> : o \in ImplOutcomes}
    \cup {<<"ConnectionError", o>> : o \in ImplOutcomes}
    \cup {<<"ConnectionError", "TimeoutError", o>> : o \in ImplOutcomes}

\* What the k-th call of the scripted implementation does.
OutcomeAt(script, k) == IF k <= Len(script) THEN script[k] ELSE script[Len(script)]

Ops == {"get_stock_basic_info", "get_stock_daily_data",
        "get_stock_financial_indicators", "get_hot_sectors",
        "get_concept_sectors", "get_sector_stocks"}

\* The keyword arguments each public operation hands to _handle_request_error.
Context(op, code) ==
    CASE op = "get_stock_daily_data" ->
            [stock_code |-> code, start_date |-> "20240101", end_date |-> "20240131"]
      [] op = "get_stock_financial_indicators" -> [stock_code |-> code]
      [] op = "get_sector_stocks" -> [sector_code |-> code]
      [] OTHER -> <<>>

RECURSIVE Pow2(_)
Pow2(n) == IF n = 0 THEN 1 ELSE 2 * Pow2(n - 1)

RECURSIVE SumSeq(_)
SumSeq(q) == IF q = <<>> THEN 0 ELSE Head(q) + SumSeq(Tail(q))

\* Mutant: the same delay before every retry.
BackoffDelay_Constant(retry) == retry_delay

\* backoff_delay = self._retry_delay * (2 ** retry)
BackoffDelay(retry) == retry_delay * Pow2(retry)

\* Mutant: a sleep follows every failed attempt, the last one included.
RetriesLeft_Always(retry) == retry < max_retries

\* Whether a failed attempt number retry (from 0) is followed by another one:
\*   if retry < self._max_retries - 1
RetriesLeft(retry) == retry < max_retries - 1

\* Mutant: every exception is retried.
IsNetworkError_Any(out) == out \notin Returns

\* except (ConnectionError, TimeoutError) as network_error
IsNetworkError(out) == out \in NetworkErrors

\* _record_error(message, exception, context)
ErrorRecord(message, exc, context) ==
    [message |-> message, exception_type |-> exc, context |-> context]

\* _retry_with_backoff from iteration retry on, with the sleeps made so far.
\* The result tells how many times func was called, the sleeps, what was
\* returned or raised, and the error _record_error stored before a raise.
RECURSIVE RetryFrom(_, _, _)
RetryFrom(script, retry, slept) ==
    IF retry >= max_retries
    THEN [calls |-> retry, sleeps |-> slept, raised |-> None,
          value |-> "not_a_frame", recorded |-> NoRecord]
    ELSE LET out == OutcomeAt(script, retry + 1) IN
         IF out \in Returns
         THEN [calls |-> retry + 1, sleeps |-> slept, raised |-> None,
               value |-> out, recorded |-> NoRecord]
         ELSE IF IsNetworkError(out)
         THEN IF RetriesLeft(retry)
              THEN RetryFrom(script, retry + 1, Append(slept, BackoffDelay(retry)))
              ELSE [calls |-> retry + 1, sleeps |-> slept, raised |-> out,
                    value |-> None,
                    recorded |-> ErrorRecord(<<"network failed after retries", out>>,
                                             out, <<>>)]
         ELSE [calls |-> retry + 1, sleeps |-> slept, raised |-> out,
               value |-> None,
               recorded |-> ErrorRecord(<<"failed", out>>, out, <<>>)]

retry_with_backoff(script) == RetryFrom(script, 0, <<>>)

\* Mutant: the error is recorded without the call context.
handle_request_error_NoContext(exc, op, context) ==
    ErrorRecord(<<op, "failed", exc>>, exc, <<>>)

\* _handle_request_error(error, func_name, **context): the record it stores
\* (it then returns an empty DataFrame).
handle_request_error(exc, op, context) ==
    ErrorRecord(<<op, "failed", exc>>, exc, context)

\* A public contract operation: try: return self._retry_with_backoff(impl)
\* except Exception as e: return self._handle_request_error(e, op, **context)
\* Every scripted exception is an Exception, so nothing propagates through
\* the log_error decorator.  The result adds what the caller gets and the
\* error record left behind.
ContractCall(op, code, script) ==
    LET r == retry_with_backoff(script) IN
    IF r.raised = None
    THEN r @@ [op |-> op, script |-> script, returned |-> r.value,
               propagated |-> None, error |-> NoRecord]
    ELSE r @@
         [op |-> op, script |-> script, returned |-> "empty_frame",
          propagated |-> None,
          error |-> handle_request_error(r.raised, op, Context(op, code))]

NoCall == [op |-> None]
NoHealth == [called |-> FALSE]

ClientInit ==
    /\ clientNow = 1
    /\ last_error = NoRecord
    /\ last_error_time = NoTime
    /\ opsDone = 0
    /\ ticksDone = 0
    /\ lastCall = NoCall
    /\ lastHealth = NoHealth

\* Mutant: a call without an error clears the error record.
AfterCall_ClearsOnSuccess(c) ==
    /\ clientNow' = clientNow + SumSeq(c.sleeps)
    /\ last_error' = c.error
    /\ last_error_time' =
          IF c.error = NoRecord THEN NoTime ELSE clientNow + SumSeq(c.sleeps)

\* The client state after a contract call: time.sleep made the clock advance,
\* and a failure stored the error record with the time of the failure.
AfterCall(c) ==
    /\ clientNow' = clientNow + SumSeq(c.sleeps)
    /\ last_error' = IF c.error = NoRecord THEN last_error ELSE c.error
    /\ last_error_time' =
          IF c.error = NoRecord THEN last_error_time
          ELSE clientNow + SumSeq(c.sleeps)

\* One of the six public operations is called.
CallOp ==
    /\ UNCHANGED notClient
    /\ opsDone < MaxOps
    /\ \E op \in Ops, script \in Scripts :
          LET c == ContractCall(op, "c1", script) IN
          /\ AfterCall(c)
          /\ lastCall' = c
    /\ opsDone' = opsDone + 1
    /\ lastHealth' = NoHealth
    /\ UNCHANGED ticksDone

\* Time passes with the client idle.
TickSteps == {HealthWindow - 1, HealthWindow}

Tick ==
    /\ UNCHANGED notClient
    /\ ticksDone < MaxTicks
    /\ \E d \in TickSteps : clientNow' = clientNow + d
    /\ ticksDone' = ticksDone + 1
    /\ lastCall' = NoCall
    /\ lastHealth' = NoHealth
    /\ UNCHANGED <<last_error, last_error_time, opsDone>>

\* if self._last_error_time and time.time() - self._last_error_time < 300
RecentError ==
    /\ last_error_time # NoTime
    /\ last_error_time # 0
    /\ clientNow - last_error_time < HealthWindow

\* health = isinstance(df, pd.DataFrame)
ProbeHealthy(df) == df \in {"frame", "empty_frame"}

\* is_healthy(check_api=False)
IsHealthyNoApi ==
    /\ UNCHANGED notClient
    /\ lastHealth' = [called |-> TRUE, check_api |-> FALSE, at |-> clientNow,
                      error_time |-> last_error_time,
                      recent |-> RecentError, probe |-> None,
                      result |-> ~RecentError]
    /\ UNCHANGED <<clientNow, last_error, last_error_time, opsDone, ticksDone,
                   lastCall>>

\* is_healthy(check_api=True): without a recent error it calls
\* self.get_stock_basic_info() and judges the returned object.
IsHealthyApi ==
    /\ UNCHANGED notClient
    /\ IF RecentError
       THEN /\ lastHealth' = [called |-> TRUE, check_api |-> TRUE,
                              at |-> clientNow, recent |-> TRUE,
                              error_time |-> last_error_time,
                              probe |-> None, result |-> FALSE]
            /\ UNCHANGED <<clientNow, last_error, last_error_time, opsDone,
                           ticksDone, lastCall>>
       ELSE /\ opsDone < MaxOps
            /\ \E script \in Scripts :
                  LET c == ContractCall("get_stock_basic_info", "c1", script) IN
                  /\ AfterCall(c)
                  /\ lastCall' = c
                  /\ lastHealth' = [called |-> TRUE, check_api |-> TRUE,
                                    at |-> clientNow, recent |-> FALSE,
                                    error_time |-> last_error_time,
                                    probe |-> c.returned,
                                    result |-> ProbeHealthy(c.returned)]
            /\ opsDone' = opsDone + 1
            /\ UNCHANGED ticksDone

ClientNext ==
    \/ CallOp
    \/ Tick
    \/ IsHealthyNoApi
    \/ IsHealthyApi

(***************************************************************************)
(* data_storage/db_storage.py: daily bars in the stock_daily_data table.   *)
(*                                                                         *)
(* The table is the sequence of its rows in insertion order; a row is      *)
(* [stock_code, trade_date, vals], vals giving the eight Float columns.    *)
(* Dates are day numbers.  database/models.py declares no unique           *)
(* constraint on (stock_code, trade_date).                                 *)
(***************************************************************************)
MaxSaves == 2      \* save_stock_daily_data calls in one behaviour
MaxItems == 2      \* rows of one bar table
MaxDay == 2        \* trade dates are the days 1..MaxDay

Days == 1..MaxDay

Fields == {"open_price", "high_price", "low_price", "close_price",
           "volume", "amount", "change_percent", "turnover_rate"}

\* Columns vendor A's daily table lacks (akshare_client.py, column_mapping).
OptionalFields == {"change_percent"}

FieldNo(f) ==
    CASE f = "open_price" -> 1 [] f = "high_price" -> 2 [] f = "low_price" -> 3
      [] f = "close_price" -> 4 [] f = "volume" -> 5 [] f = "amount" -> 6
      [] f = "change_percent" -> 7 [] f = "turnover_rate" -> 8

\* A trade_date cell: a date object, a '%Y%m%d' string, or a string in
\* another format (which strptime rejects).
DateCell(kind, d) == [kind |-> kind, day |-> d]

\* datetime.strptime(trade_date, '%Y%m%d').date(): the day, or a ValueError.
BadDate == 0
ParseDate(cell) == IF cell.kind = "bad" THEN BadDate ELSE cell.day

\* trade_date after lines 103-105: strings are parsed, dates are kept.
TradeDateOf(cell) == IF cell.kind = "date" THEN cell.day ELSE ParseDate(cell)

\* The cells of the bar tables given to save: the cell of column f in row i
\* of a table of price level v.
CellValue(v, i, f) == 100 * v + 10 * i + FieldNo(f)

\* Bar tables: every row has the same columns (a DataFrame), the trade_date
\* column holds dates or strings, and a string may be malformed.
Slots == Days \cup {BadDate}
SlotSeqs == UNION {[1..n -> Slots] : n \in 1..MaxItems}

BarTable(kind, cols, v, slots) ==
    [i \in 1..Len(slots) |->
        [trade_date |-> IF slots[i] = BadDate THEN DateCell("bad", 1)
                        ELSE DateCell(kind, slots[i]),
         vals |-> [f \in cols |-> CellValue(v, i, f)]]]

TableShapes ==
    {x \in {"date", "str"} \X {Fields, Fields \ OptionalFields} \X {1, 2} \X SlotSeqs :
        \A i \in 1..Len(x[4]) : x[4][i] = BadDate => x[1] = "str"}

BarTables == {BarTable(x[1], x[2], x[3], x[4]) : x \in TableShapes}

\* float(item.get(f, default))
ItemGet(item, f, default) ==
    IF f \in DOMAIN item.vals THEN item.vals[f] ELSE default

\* Index of the row db.query(StockDailyData).filter(code, date).first()
\* returns, 0 when there is none: the first matching row of the table.
FirstMatch(tbl, code, d) ==
    LET hits == {k \in 1..Len(tbl) :
                    tbl[k].stock_code = code /\ tbl[k].trade_date = d}
    IN IF hits = {} THEN 0 ELSE CHOOSE k \in hits : \A j \in hits : k <= j

\* Lines 115-122: the existing row takes the item's values, keeping its own
\* where the item has no such key.
UpdatedRow(row, item) ==
    [row EXCEPT !.vals = [f \in Fields |-> ItemGet(item, f, row.vals[f])]]

\* Lines 125-136: a new row, 0 where the item has no such key.
NewRow(code, d, item) ==
    [stock_code |-> code, trade_date |-> d,
     vals |-> [f \in Fields |-> ItemGet(item, f, 0)]]

\* Mutant: a rollback that keeps what the session had flushed or changed.
RolledBack_KeepsFlushed(committed, seen, pending) == seen

\* db.rollback(): the table is as it was committed before the call.
RolledBack(committed, seen, pending) == committed

\* The loop of save_stock_daily_data from item k on.  tbl is the table as
\* the session's queries see it (committed and flushed rows, with the
\* changes made to loaded rows), pending the rows added and not flushed yet.
\* A query flushes the pending rows first when the session autoflushes.
\* The result is the table after db.commit(), or the untouched committed
\* table after db.rollback().
RECURSIVE SaveFrom(_, _, _, _, _, _, _)
SaveFrom(committed, tbl, pending, code, items, k, flush) ==
    IF k > Len(items)
    THEN [ok |-> TRUE, rows |-> tbl \o pending]
    ELSE LET item == items[k]
             d == TradeDateOf(item.trade_date)
             seen == IF flush THEN tbl \o pending ELSE tbl
             left == IF flush THEN <<>> ELSE pending
             hit == FirstMatch(seen, code, d)
         IN IF d = BadDate
            THEN [ok |-> FALSE, rows |-> RolledBack(committed, seen, left)]
            ELSE IF hit # 0
            THEN SaveFrom(committed,
                          [seen EXCEPT ![hit] = UpdatedRow(seen[hit], item)],
                          left, code, items, k + 1, flush)
            ELSE SaveFrom(committed, seen, Append(left, NewRow(code, d, item)),
                          code, items, k + 1, flush)

\* save_stock_daily_data(db, stock_code, daily_data) on a fresh session.
save_stock_daily_data(tbl, code, items, flush) ==
    IF items = <<>> THEN [ok |-> TRUE, rows |-> tbl]
    ELSE SaveFrom(tbl, tbl, <<>>, code, items, 1, flush)

\* ORDER BY trade_date ASC: insertion of x into an ascending sequence, after
\* the rows of the same date.
RECURSIVE InsertByDate(_, _)
InsertByDate(q, x) ==
    IF q = <<>> THEN <<x>>
    ELSE IF x.trade_date < Head(q).trade_date THEN <<x>> \o q
    ELSE <<Head(q)>> \o InsertByDate(Tail(q), x)

RECURSIVE OrderByDate(_)
OrderByDate(q) ==
    IF q = <<>> THEN <<>>
    ELSE InsertByDate(OrderByDate(SubSeq(q, 1, Len(q) - 1)), q[Len(q)])

\* _get_stock_daily_data_internal(db, code, start_date, end_date): the rows
\* of the code within the range, ascending by date, as dicts.
get_stock_daily_data(tbl, code, start, end) ==
    LET sel == SelectSeq(tbl, LAMBDA r : /\ r.stock_code = code
                                         /\ r.trade_date >= start
                                         /\ r.trade_date <= end)
        ord == OrderByDate(sel)
    IN [i \in 1..Len(ord) |-> [trade_date |-> ord[i].trade_date,
                              vals |-> ord[i].vals]]

NoSave == [called |-> FALSE]
NoRead == [called |-> FALSE]

\* The store at rest: an empty table.
StoreRest ==
    /\ autoflush = FALSE
    /\ rows = <<>>
    /\ savesDone = 0
    /\ lastSave = NoSave
    /\ lastRead = NoRead

\* database/connection.py builds SessionLocal; whether its sessions
\* autoflush is a setting of that factory.
StoreInit ==
    /\ autoflush \in BOOLEAN
    /\ rows = <<>>
    /\ savesDone = 0
    /\ lastSave = NoSave
    /\ lastRead = NoRead

\* db_storage.save_stock_daily_data(db, code, table) with a new session.
SaveDaily ==
    /\ UNCHANGED notStore
    /\ savesDone < MaxSaves
    /\ \E code \in Codes, items \in BarTables :
          LET r == save_stock_daily_data(rows, code, items, autoflush) IN
          /\ rows' = r.rows
          /\ lastSave' = [called |-> TRUE, code |-> code, items |-> items,
                          ok |-> r.ok]
    /\ savesDone' = savesDone + 1
    /\ lastRead' = NoRead
    /\ UNCHANGED autoflush

\* db_storage.get_stock_daily_data(db, code, start, end) after a save, for
\* the code just saved.
ReadDaily ==
    /\ UNCHANGED notStore
    /\ lastSave.called
    /\ ~lastRead.called
    /\ \E start \in Days, end \in Days :
          /\ start <= end
          /\ lastRead' = [called |-> TRUE, code |-> lastSave.code,
                          start |-> start, end |-> end,
                          result |-> get_stock_daily_data(rows, lastSave.code,
                                                          start, end)]
    /\ UNCHANGED <<autoflush, rows, savesDone, lastSave>>

StoreNext ==
    \/ SaveDaily
    \/ ReadDaily

(***************************************************************************)
(* backend/main.py: is_data_outdated, over the stock_daily_data table and  *)
(* the provider's trading calendar.                                        *)
(***************************************************************************)
MaxToday == 5      \* the current date is a day in MaxDay..MaxToday

Thresholds == {1, 2}            \* days_threshold, 1 by default

\* What the database does during one check: it answers, or SessionLocal()
\* raises, or the query of get_latest_stock_date raises.
DbStates == {"up", "session_fails", "query_fails"}

\* What the provider does when asked for the index bars behind the trading
\* calendar: it answers with the trading days it knows, or the call fails.
ProviderStates == {"ok", "fails"}
Calendars == SUBSET (1..MaxToday)

\* db_storage.get_latest_stock_date(code): the trade_date of the newest row
\* of the code, None without rows.
get_latest_stock_date(tbl, code) ==
    LET ds == {tbl[k].trade_date : k \in {j \in 1..Len(tbl) : tbl[j].stock_code = code}}
    IN IF ds = {} THEN NoTime ELSE CHOOSE d \in ds : \A e \in ds : e <= d

\* date.strftime('%Y%m%d')
StrfDate(d) == DateCell("str", d)

RECURSIVE SortedSeq(_)
SortedSeq(S) ==
    IF S = {} THEN <<>>
    ELSE LET m == CHOOSE d \in S : \A e \in S : d <= e
         IN <<m>> \o SortedSeq(S \ {m})

\* AkshareClient.get_index_data('000001', start_date, end_date): the index
\* bars within the range; any exception is caught and gives an empty table.
get_index_data(provider, cal, start_date, end_date) ==
    IF provider = "fails" THEN {}
    ELSE {d \in cal : ParseDate(start_date) <= d /\ d <= ParseDate(end_date)}

\* AkshareClient.get_trade_dates(start_date, end_date) (the definition at
\* line 362, which replaces the one at line 266): the sorted dates of the
\* index bars, [] when the table is empty.
get_trade_dates(provider, cal, start_date, end_date) ==
    SortedSeq(get_index_data(provider, cal, start_date, end_date))

\* Mutant: the calendar is asked from the latest stored date itself.
GapStart_Inclusive(latest) == latest

\* start_date = latest_date + timedelta(days=1)
GapStart(latest) == latest + 1

\* Mutant: the calendar is consulted from the threshold on, not beyond it.
BeyondThreshold_AtLeast(days_diff, days_threshold) == days_diff >= days_threshold

\* if days_diff > days_threshold
BeyondThreshold(days_diff, days_threshold) == days_diff > days_threshold

\* is_data_outdated(stock_code, days_threshold)
is_data_outdated(tbl, code, days_threshold, now, db, provider, cal) ==
    IF db = "session_fails" THEN TRUE
    ELSE LET latest_date == IF db = "query_fails" THEN NoTime
                            ELSE get_latest_stock_date(tbl, code)
         IN IF latest_date = NoTime THEN TRUE
            ELSE IF BeyondThreshold(now - latest_date, days_threshold)
            THEN Len(get_trade_dates(provider, cal,
                                     StrfDate(GapStart(latest_date)),
                                     StrfDate(now))) > 0
            ELSE FALSE

NoCheck == [called |-> FALSE]

\* is_data_outdated at rest.
StaleRest ==
    /\ today = 1
    /\ lastCheck = NoCheck

\* The table after one bar was stored for every (code, day) of S.
RECURSIVE StoredTable(_)
StoredTable(S) ==
    IF S = {} THEN <<>>
    ELSE LET p == CHOOSE x \in S : \A y \in S : x[2] <= y[2]
         IN <<NewRow(p[1], p[2], [vals |-> <<>>])>> \o StoredTable(S \ {p})

\* The service on day MaxDay, with bars stored for some codes and days.
StaleInit ==
    /\ autoflush = FALSE
    /\ rows \in {StoredTable(S) : S \in SUBSET (Codes \X Days)}
    /\ savesDone = 0
    /\ lastSave = NoSave
    /\ lastRead = NoRead
    /\ today = MaxDay
    /\ lastCheck = NoCheck

\* Midnight passes.
NextDay ==
    /\ UNCHANGED notStale
    /\ today < MaxToday
    /\ today' = today + 1
    /\ lastCheck' = NoCheck

\* await is_data_outdated(code, days_threshold).  The check changes nothing
\* of the service, so it is taken once per day and table.
CheckOutdated ==
    /\ UNCHANGED notStale
    /\ ~lastCheck.called
    /\ \E code \in Codes, thr \in Thresholds, db \in DbStates,
          provider \in ProviderStates, cal \in Calendars :
          lastCheck' = [called |-> TRUE, code |-> code, threshold |-> thr,
                        db |-> db, provider |-> provider, calendar |-> cal,
                        result |-> is_data_outdated(rows, code, thr, today, db,
                                                    provider, cal)]
    /\ UNCHANGED today

StaleNext ==
    \/ NextDay
    \/ CheckOutdated

(***************************************************************************)
(* backend/main.py: update_stock_data_incrementally, the endpoint          *)
(* POST /api/stocks/{code}/update, and the stocks that one run of          *)
(* update_all_stocks_data covers (followed here stock by stock, for one    *)
(* run at a time: the mutex is the subject of SpecLock).                   *)
(***************************************************************************)
MaxUpdates == 2     \* update_stock_data_incrementally calls in one behaviour

Lookback == 1000    \* timedelta(days=1000)

\* The database during one incremental update: as for the staleness check,
\* or the queries answer and db.commit() raises.
UpdateDbStates == DbStates \cup {"commit_fails"}

\* What update actions leave alone apart from the table, the tracked set,
\* the full-update timestamp and the date.
notUpdate == <<clientVars, locked, waiters, futDone, lockLoop, pc, runs, todo,
               update_results, svcNow, autoflush, savesDone, lastSave, lastRead,
               lastCheck, schedVars, basicVars,
               factoryVars, tushareVars, apiVars, reportVars, waitVars, raceVars>>

\* Mutant: the window is asked from the latest stored date itself.
WindowStart_FromLatest(latest_date, now) ==
    IF latest_date # NoTime THEN latest_date ELSE now - Lookback

\* start_date: the day after the latest stored date, or 1000 days back.
WindowStart(latest_date, now) ==
    IF latest_date # NoTime THEN latest_date + 1 ELSE now - Lookback

\* start_date <= end_date on '%Y%m%d' strings: the order of the dates.
StrLeq(a, b) == ParseDate(a) <= ParseDate(b)

\* AkshareClient.get_stock_daily_data(code, start_date, end_date): the bars
\* of the vendor's trading days within the window, trade_date as '%Y%m%d'
\* strings, ascending; an empty table when both vendor calls fail.
ProviderBars(provider, cal, start_date, end_date) ==
    IF provider = "fails" THEN <<>>
    ELSE BarTable("str", Fields \ OptionalFields, 1,
                  SortedSeq({d \in cal : /\ ParseDate(start_date) <= d
                                         /\ d <= ParseDate(end_date)}))

\* The vendor's trading days as one update finds them: every day up to now,
\* or every day before now (today's bar is not published yet).
VendorDays(now) == {1..now, 1..(now - 1)}

\* db_storage.save_stock_daily_data(db, code, df) on a database in state db:
\* a failing query or commit is rolled back and gives False.
SaveOn(db, tbl, code, items, flush) ==
    IF db \in {"query_fails", "commit_fails"}
    THEN [ok |-> FALSE, rows |-> tbl]
    ELSE save_stock_daily_data(tbl, code, items, flush)

\* update_stock_data_incrementally(stock_code): what it asked the provider,
\* whether it called the save, the table afterwards and its return value.
update_stock_data_incrementally(tbl, code, now, db, provider, cal, flush) ==
    LET quiet(res) == [provider_called |-> FALSE, start |-> NoTime,
                       end |-> NoTime, saved |-> FALSE, rows |-> tbl,
                       result |-> res]
    IN IF db = "session_fails" THEN quiet(FALSE)
       ELSE LET latest_date == IF db = "query_fails" THEN NoTime
                               ELSE get_latest_stock_date(tbl, code)
                start_date == StrfDate(WindowStart(latest_date, now))
                end_date == StrfDate(now)
                df == ProviderBars(provider, cal, start_date, end_date)
                s == SaveOn(db, tbl, code, df, flush)
            IN IF StrLeq(start_date, end_date)
               THEN IF df # <<>>
                    THEN [provider_called |-> TRUE,
                          start |-> ParseDate(start_date),
                          end |-> ParseDate(end_date),
                          saved |-> TRUE, rows |-> s.rows, result |-> s.ok]
                    ELSE [provider_called |-> TRUE,
                          start |-> ParseDate(start_date),
                          end |-> ParseDate(end_date),
                          saved |-> FALSE, rows |-> tbl, result |-> TRUE]
               ELSE quiet(TRUE)

NoUpdate == [called |-> FALSE]
NoReply == [called |-> FALSE]
NoFull == [called |-> FALSE]

\* What is kept of one incremental update on the table tbl.
UpdateRecord(tbl, code, now, db, u) ==
    [called |-> TRUE, now |-> now, db |-> db,
     latest |-> get_latest_stock_date(tbl, code),
     provider_called |-> u.provider_called, start |-> u.start, end |-> u.end,
     saved |-> u.saved, unchanged |-> (u.rows = tbl), result |-> u.result]

\* The update sub-system at rest.
UpdateRest ==
    /\ updatesDone = 0
    /\ lastUpdate = NoUpdate
    /\ lastReply = NoReply
    /\ fullPc = "idle"
    /\ fullTodo = <<>>
    /\ fullTracked = {}
    /\ fullResults = {}
    /\ lastFull = NoFull

\* The service on day MaxDay, with or without a bar of that day stored for
\* each code.
UpdateInit ==
    /\ autoflush = FALSE
    /\ rows \in {StoredTable(S) : S \in SUBSET (Codes \X {MaxDay})}
    /\ savesDone = 0
    /\ lastSave = NoSave
    /\ lastRead = NoRead
    /\ today = MaxDay
    /\ lastCheck = NoCheck
    /\ UpdateRest

\* POST /api/stocks/{stock_code}/update: the code is tracked, the
\* incremental update is awaited, and the reply is built.
UpdateSingleStock ==
    /\ UNCHANGED notUpdate
    /\ updatesDone < MaxUpdates
    /\ \E code \in Codes, db \in UpdateDbStates, provider \in ProviderStates,
          cal \in VendorDays(today) :
          LET u == update_stock_data_incrementally(rows, code, today, db,
                                                   provider, cal, autoflush)
          IN /\ rows' = u.rows
             /\ requested_stock_codes' = requested_stock_codes \cup {code}
             /\ lastUpdate' = UpdateRecord(rows, code, today, db, u)
             /\ lastReply' = [called |-> TRUE, status |-> "success",
                              updated |-> u.result]
    /\ updatesDone' = updatesDone + 1
    /\ lastFull' = NoFull
    /\ UNCHANGED <<today, last_full_update_time, fullPc, fullTodo, fullTracked,
                   fullResults>>

\* update_all_stocks_data up to its loop: the provider's stock list is
\* fetched; an empty list ends the run, otherwise its codes join the
\* tracked set and are the codes to update.
FullStart ==
    /\ UNCHANGED notUpdate
    /\ fullPc = "idle"
    /\ \E universe \in Universes :
          /\ updatesDone + Len(universe) <= MaxUpdates
          /\ IF universe = <<>>
             THEN /\ lastFull' = [called |-> TRUE, finished |-> FALSE,
                                  tracked |-> requested_stock_codes,
                                  attempted |-> {}]
                  /\ UNCHANGED <<requested_stock_codes, fullPc, fullTodo,
                                 fullTracked, fullResults>>
             ELSE /\ requested_stock_codes' = requested_stock_codes \cup
                        {universe[i] : i \in 1..Len(universe)}
                  /\ fullPc' = "loop"
                  /\ fullTodo' = universe
                  /\ fullTracked' = requested_stock_codes
                  /\ fullResults' = {}
                  /\ lastFull' = NoFull
    /\ lastUpdate' = NoUpdate
    /\ lastReply' = NoReply
    /\ UNCHANGED <<rows, today, last_full_update_time, updatesDone>>

\* One round of the loop: the incremental update of the next code, its
\* result stored in update_results.
FullUpdateOne ==
    /\ UNCHANGED notUpdate
    /\ fullPc = "loop"
    /\ fullTodo # <<>>
    /\ \E db \in UpdateDbStates, provider \in ProviderStates,
          cal \in VendorDays(today) :
          LET code == Head(fullTodo)
              u == update_stock_data_incrementally(rows, code, today, db,
                                                   provider, cal, autoflush)
          IN /\ rows' = u.rows
             /\ lastUpdate' = UpdateRecord(rows, code, today, db, u)
             /\ fullResults' = {p \in fullResults : p[1] # code}
                                  \cup {<<code, u.result>>}
    /\ fullTodo' = Tail(fullTodo)
    /\ updatesDone' = updatesDone + 1
    /\ UNCHANGED <<today, requested_stock_codes, last_full_update_time, lastReply,
                   fullPc, fullTracked, lastFull>>

\* After the loop: the timestamp is set and update_results returned.
FullFinish ==
    /\ UNCHANGED notUpdate
    /\ fullPc = "loop"
    /\ fullTodo = <<>>
    /\ last_full_update_time' = today
    /\ lastFull' = [called |-> TRUE, finished |-> TRUE,
                    tracked |-> fullTracked,
                    attempted |-> {p[1] : p \in fullResults}]
    /\ fullPc' = "idle"
    /\ fullTracked' = {}
    /\ fullResults' = {}
    /\ UNCHANGED <<rows, today, requested_stock_codes, updatesDone, lastUpdate,
                   lastReply, fullTodo>>

\* Midnight passes while the service runs, up to two days after the start.
Midnight ==
    /\ UNCHANGED notUpdate
    /\ today < MaxDay + 2
    /\ today' = today + 1
    /\ lastUpdate' = NoUpdate
    /\ lastReply' = NoReply
    /\ lastFull' = NoFull
    /\ UNCHANGED <<rows, requested_stock_codes, last_full_update_time,
                   updatesDone, fullPc, fullTodo, fullTracked, fullResults>>

UpdateNext ==
    \/ UpdateSingleStock
    \/ FullStart
    \/ FullUpdateOne
    \/ FullFinish
    \/ Midnight

(***************************************************************************)
(* backend/main.py: run_scheduler, the polling loop of the scheduler       *)
(* thread.  Time is counted in ticks of 60 s; a day is shortened to        *)
(* DayTicks ticks, the four daily jobs being due at the ticks JobSlots of  *)
(* every day.  A job is asyncio.run(update_all_stocks_data()): it returns  *)
(* or it raises (the lock may be bound to another loop).                   *)
(***************************************************************************)
MaxSchedDays == 2   \* days the clock runs through; then it stands still

DayTicks == 5       \* ticks of one day

\* at("09:00"), at("10:30"), at("13:30"), at("15:45")
JobSlots == <<1, 2, 3, 4>>
Jobs == 1..Len(JobSlots)

Horizon == MaxSchedDays * DayTicks

\* What a job can raise: subclasses of Exception.
JobErrors == {"RuntimeError", "ValueError"}

\* Mutant: the loop has no handler for what a job raises.
CaughtByLoop_Nothing(e) == FALSE

\* except Exception as e
CaughtByLoop(e) == e \in JobErrors

\* Job._schedule_next_run: the next tick after now at the job's time of day.
NextOccurrence(slot, now) ==
    LET base == (now \div DayTicks) * DayTicks + slot
    IN IF base > now THEN base ELSE base + DayTicks

\* job.should_run
ShouldRun(j) == nextRun[j] <= schedClock

\* sorted(runnable_jobs): the jobs due, by next_run.
RECURSIVE SortedJobs(_)
SortedJobs(S) ==
    IF S = {} THEN <<>>
    ELSE LET j == CHOOSE x \in S : \A y \in S : nextRun[x] <= nextRun[y]
         IN <<j>> \o SortedJobs(S \ {j})

Runnable == SortedJobs({j \in Jobs : ShouldRun(j)})

\* next_run after the first n runnable jobs ran and were scheduled again.
AfterRuns(n) ==
    [j \in Jobs |->
        IF \E i \in 1..n : Runnable[i] = j
        THEN NextOccurrence(JobSlots[j], schedClock)
        ELSE nextRun[j]]

\* time.sleep(60)
AfterSleep == IF schedClock < Horizon THEN schedClock + 1 ELSE schedClock

SchedRest ==
    /\ schedPc = "run_pending"
    /\ schedClock = 0
    /\ schedChecked = 0
    /\ nextRun = [j \in Jobs |-> JobSlots[j]]
    /\ schedErrorAt = NoTime

\* schedule.run_pending() inside the try: every due job runs in turn; the
\* first one that raises ends the call, leaving itself and the jobs after
\* it as they were.  A raise the loop catches is logged.
RunPending ==
    /\ UNCHANGED notSched
    /\ schedPc = "run_pending"
    /\ schedChecked' = schedClock
    /\ \/ /\ nextRun' = AfterRuns(Len(Runnable))
          /\ schedPc' = "sleep"
          /\ UNCHANGED schedErrorAt
       \/ \E k \in 1..Len(Runnable), e \in JobErrors :
             /\ nextRun' = AfterRuns(k - 1)
             /\ IF CaughtByLoop(e)
                THEN schedPc' = "except_sleep" /\ schedErrorAt' = schedClock
                ELSE schedPc' = "dead" /\ UNCHANGED schedErrorAt
    /\ UNCHANGED schedClock

\* time.sleep(60) after run_pending returned.
SleepTick ==
    /\ UNCHANGED notSched
    /\ schedPc = "sleep"
    /\ schedClock' = AfterSleep
    /\ schedPc' = "run_pending"
    /\ UNCHANGED <<schedChecked, nextRun, schedErrorAt>>

\* time.sleep(60) in the except branch.
SleepAfterError ==
    /\ UNCHANGED notSched
    /\ schedPc = "except_sleep"
    /\ schedClock' = AfterSleep
    /\ schedPc' = "run_pending"
    /\ UNCHANGED <<schedChecked, nextRun, schedErrorAt>>

SchedNext ==
    \/ RunPending
    \/ SleepTick
    \/ SleepAfterError

(***************************************************************************)
(* data_storage/db_storage.py: save_stock_basic_info on the                *)
(* stock_basic_info table, whose stock_code column is unique.  A row is    *)
(* [stock_code, stock_name]; market, industry, area and list_date are      *)
(* handled as stock_name is.                                               *)
(***************************************************************************)
\* Items of the stock list of the n-th save: with code and name, without a
\* name, or without the 'code' key (item['code'] raises KeyError).
BasicItems(n) ==
    {[code |-> c, name |-> <<"name", n>>] : c \in Codes}
        \cup {[code |-> c] : c \in Codes}
        \cup {[name |-> <<"name", n>>]}

BasicLists(n) == UNION {[1..m -> BasicItems(n)] : m \in 0..MaxItems}

\* What the database does during one save_stock_basic_info: it answers, or
\* create_all / commit raises.
BasicDbStates == {"up", "fails"}

\* db.query(Stock).filter(Stock.stock_code == code).first()
FirstStock(tbl, code) ==
    LET hits == {k \in 1..Len(tbl) : tbl[k].stock_code = code}
    IN IF hits = {} THEN 0 ELSE CHOOSE k \in hits : \A j \in hits : k <= j

\* item.get('name', default)
NameOf(item, default) == IF "name" \in DOMAIN item THEN item.name ELSE default

\* The unique index on stock_code rejects the flush of two rows of one code.
UniqueCodes(tbl) ==
    \A i \in 1..Len(tbl), j \in 1..Len(tbl) :
        tbl[i].stock_code = tbl[j].stock_code => i = j

\* The loop of save_stock_basic_info from item k on, then db.commit().
RECURSIVE BasicFrom(_, _, _, _, _, _)
BasicFrom(committed, tbl, pending, items, k, flush) ==
    IF k > Len(items)
    THEN IF UniqueCodes(tbl \o pending)
         THEN [ok |-> TRUE, rows |-> tbl \o pending]
         ELSE [ok |-> FALSE, rows |-> RolledBack(committed, tbl, pending)]
    ELSE LET item == items[k]
             seen == IF flush THEN tbl \o pending ELSE tbl
             left == IF flush THEN <<>> ELSE pending
         IN IF "code" \notin DOMAIN item
            THEN [ok |-> FALSE, rows |-> RolledBack(committed, seen, left)]
            ELSE LET hit == FirstStock(seen, item.code)
                 IN IF hit # 0
                    THEN BasicFrom(committed,
                                   [seen EXCEPT ![hit].stock_name =
                                        NameOf(item, seen[hit].stock_name)],
                                   left, items, k + 1, flush)
                    ELSE BasicFrom(committed, seen,
                                   Append(left, [stock_code |-> item.code,
                                                 stock_name |-> NameOf(item, <<>>)]),
                                   items, k + 1, flush)

\* save_stock_basic_info(db, stock_data) on a fresh session.
save_stock_basic_info(tbl, items, flush, db) ==
    IF db = "fails" THEN [ok |-> FALSE, rows |-> RolledBack(tbl, tbl, <<>>)]
    ELSE BasicFrom(tbl, tbl, <<>>, items, 1, flush)

NoBasic == [called |-> FALSE]

BasicRest ==
    /\ stocks = <<>>
    /\ basicSaves = 0
    /\ lastBasic = NoBasic

\* The rows of a list that are processed before one raises, bad being the
\* positions of the rows that raise: all of them when none does.
RowsBefore(items, bad) ==
    IF bad = {} THEN Len(items)
    ELSE (CHOOSE k \in bad : \A j \in bad : k <= j) - 1

\* The rows on which datetime.strptime raises.
BadBars(items) ==
    {k \in 1..Len(items) : TradeDateOf(items[k].trade_date) = BadDate}

\* The items on which item['code'] raises.
BadStocks(items) == {k \in 1..Len(items) : "code" \notin DOMAIN items[k]}

\* What the two saves leave alone.
notSave == <<lockVars, clientVars, staleVars, updateVars, schedVars, autoflush,
             factoryVars, tushareVars, apiVars, reportVars, waitVars, raceVars>>

\* db_storage.save_stock_basic_info(db, stock_list) with a new session. The
\* two tables are independent of each other: a behaviour saves to one of
\* them.
SaveBasic ==
    /\ UNCHANGED notSave
    /\ savesDone = 0
    /\ basicSaves < MaxSaves
    /\ \E items \in BasicLists(basicSaves + 1), db \in BasicDbStates :
          LET r == save_stock_basic_info(stocks, items, autoflush, db) IN
          /\ stocks' = r.rows
          /\ lastBasic' = [called |-> TRUE, db |-> db, rows |-> Len(items),
                           before |-> RowsBefore(items, BadStocks(items)),
                           ok |-> r.ok]
    /\ basicSaves' = basicSaves + 1
    /\ lastSave' = NoSave
    /\ UNCHANGED <<rows, savesDone, lastRead>>

\* db_storage.save_stock_daily_data(db, code, df) with a new session, df a
\* bar table as the providers deliver it (every column, trade_date a
\* string, possibly malformed), the database answering.
SaveBars ==
    /\ UNCHANGED notSave
    /\ basicSaves = 0
    /\ savesDone < MaxSaves
    /\ \E code \in Codes, slots \in SlotSeqs, db \in {"up"} :
          LET items == BarTable("str", Fields, savesDone + 1, slots)
              r == SaveOn(db, rows, code, items, autoflush)
          IN /\ rows' = r.rows
             /\ lastSave' = [called |-> TRUE, db |-> db, rows |-> Len(items),
                             before |-> RowsBefore(items, BadBars(items)),
                             ok |-> r.ok]
    /\ savesDone' = savesDone + 1
    /\ lastBasic' = NoBasic
    /\ UNCHANGED <<stocks, basicSaves, lastRead>>

SaveNext ==
    \/ SaveBars
    \/ SaveBasic

(***************************************************************************)
(* data_fetching/data_source_factory.py: DataSourceConfig and              *)
(* DataSourceFactory. A token is the pair of its first 8 characters and    *)
(* the rest; a client is the pair of its identity and its token. The       *)
(* configuration is followed by its default_source and its tushare token;  *)
(* the configuration file is taken to be writable.                         *)
(***************************************************************************)
MaxFactoryOps == 4

DATA_SOURCE_TUSHARE == "tushare"

\* The tokens of test_data_source_switch.py: "test_token_1", "test_token_2",
\* "mock_test_token"; no token is None or ''.
NoToken == <<>>

Tokens == {<<"test_tok", "en_1">>, <<"test_tok", "en_2">>, <<"mock_tes", "t_token">>}

\* token[:8]
TokenPrefix(token) == token[1]

\* TS_TOKEN of tushare_adapter.py when the environment has none.
TS_TOKEN == NoToken

\* TuShareClient.name
ClientName == "Tushare"

NoClient == [id |-> 0, token |-> NoToken]

\* What TuShareClient(token) does: it returns a client, or DBStorage()
\* raises in its constructor.
BuildOutcomes == {"ok", "raises"}

\* Sources asked of switch_data_source and clear_client_cache, values of
\* DATA_SOURCE_DEFAULT and of TUSHARE_TOKEN in the environment.
SwitchSources == {DATA_SOURCE_TUSHARE, "INVALID_SOURCE"}

ClearSources == {None, DATA_SOURCE_TUSHARE, "akshare"}

EnvDefaults == {None, DATA_SOURCE_TUSHARE, "akshare"}

EnvTokens == {NoToken, <<"mock_tes", "t_token">>}

\* data_source_config.json: absent, or naming a default source.
NoFile == [exists |-> FALSE, default_source |-> None, token |-> NoToken]

FileStates ==
    {NoFile} \cup {[exists |-> TRUE, default_source |-> d, token |-> NoToken] :
                      d \in {DATA_SOURCE_TUSHARE, "akshare"}}

NoConfig == [default_source |-> None, token |-> NoToken]

\* DataSourceConfig._save_config(config): the file holds the whole config.
save_config(cfg) ==
    [exists |-> TRUE, default_source |-> cfg.default_source, token |-> cfg.token]

\* DataSourceConfig._load_config(): the config read, and the file after it.
load_config(file) ==
    IF file.exists
    THEN [cfg |-> [default_source |-> file.default_source, token |-> file.token],
          file |-> file]
    ELSE LET default_config == [default_source |-> DATA_SOURCE_TUSHARE,
                                token |-> NoToken]
         IN [cfg |-> default_config, file |-> save_config(default_config)]

\* DataSourceConfig._load_default_source_from_env(): in memory only.
load_default_source_from_env(cfg, env_default_source) ==
    IF env_default_source = DATA_SOURCE_TUSHARE
          /\ cfg.default_source # env_default_source
    THEN [cfg EXCEPT !.default_source = env_default_source]
    ELSE cfg

\* DataSourceConfig.update_source_config('tushare', {..., 'token': token})
update_source_config(cfg, token) == [cfg EXCEPT !.token = token]

\* DataSourceConfig(): _load_config, _load_default_source_from_env, then
\* _load_token_from_env, which saves the config when TUSHARE_TOKEN is set.
DataSourceConfig(file, env_default_source, env_token) ==
    LET loaded == load_config(file)
        cfg == load_default_source_from_env(loaded.cfg, env_default_source)
    IN IF env_token # NoToken
       THEN LET withToken == update_source_config(cfg, env_token)
            IN [cfg |-> withToken, file |-> save_config(withToken)]
       ELSE [cfg |-> cfg, file |-> loaded.file]

set_default_source_Unchanged(cfg, source) == cfg

\* DataSourceConfig.set_default_source(source), source being 'tushare'.
set_default_source(cfg, source) == [cfg EXCEPT !.default_source = source]

\* cache_key of get_client: the source is forced to 'tushare'.
CacheKey(token) ==
    <<DATA_SOURCE_TUSHARE,
      IF token # NoToken THEN TokenPrefix(token) ELSE "default">>

EmptyCache == [k \in {} |-> NoClient]

Cached(cs, key, client) ==
    [k \in DOMAIN cs \cup {key} |-> IF k = key THEN client ELSE cs[k]]

\* DataSourceFactory._create_client('tushare', token), the n-th client.
create_client(cfg, file, n, token, build) ==
    LET cfg2 == IF token # NoToken THEN update_source_config(cfg, token) ELSE cfg
        file2 == IF token # NoToken THEN save_config(cfg2) ELSE file
        final_token == IF token # NoToken THEN token ELSE cfg.token
    IN [ok |-> build = "ok",
        client |-> IF build = "ok"
                   THEN [id |-> n,
                         token |-> IF final_token # NoToken THEN final_token
                                   ELSE TS_TOKEN]
                   ELSE NoClient,
        cfg |-> cfg2, file |-> file2]

\* DataSourceFactory.get_client(source, token)
get_client(cs, cfg, file, n, token, build) ==
    LET cache_key == CacheKey(token) IN
    IF cache_key \in DOMAIN cs
    THEN [ok |-> TRUE, client |-> cs[cache_key], clients |-> cs, cfg |-> cfg,
          file |-> file, created |-> n]
    ELSE LET c == create_client(cfg, file, n + 1, token, build)
         IN [ok |-> c.ok, client |-> c.client,
             clients |-> IF c.ok THEN Cached(cs, cache_key, c.client) ELSE cs,
             cfg |-> c.cfg, file |-> c.file,
             created |-> IF c.ok THEN n + 1 ELSE n]

SupportedSource_Any(source) == TRUE

\* The guard of switch_data_source.
SupportedSource(source) == source = DATA_SOURCE_TUSHARE

\* DataSourceFactory.switch_data_source(source, token): build is what the
\* construction of the requested client does, build2 what the construction
\* of the default client does in the except branch.
switch_data_source(cs, cfg, file, n, current, source, token, build, build2) ==
    IF ~SupportedSource(source)
    THEN [raised |-> "ValueError", failed |-> FALSE, result |-> NoClient,
          current |-> current, clients |-> cs, cfg |-> cfg, file |-> file,
          created |-> n]
    ELSE LET valid == source = DATA_SOURCE_TUSHARE
             cfg1 == IF valid THEN set_default_source(cfg, source) ELSE cfg
             file1 == IF valid THEN save_config(cfg1) ELSE file
             g == IF valid
                  THEN get_client(cs, cfg1, file1, n, token, build)
                  ELSE [ok |-> FALSE, client |-> NoClient, clients |-> cs,
                        cfg |-> cfg1, file |-> file1, created |-> n]
         IN IF g.ok
            THEN [raised |-> None, failed |-> FALSE, result |-> g.client,
                  current |-> g.client, clients |-> g.clients, cfg |-> g.cfg,
                  file |-> g.file, created |-> g.created]
            ELSE IF current # NoClient
            THEN [raised |-> None, failed |-> TRUE, result |-> current,
                  current |-> current, clients |-> g.clients, cfg |-> g.cfg,
                  file |-> g.file, created |-> g.created]
            ELSE LET d == get_client(g.clients, g.cfg, g.file, g.created,
                                     NoToken, build2)
                 IN [raised |-> IF valid THEN "BuildError" ELSE "ValueError",
                     failed |-> TRUE, result |-> NoClient,
                     current |-> d.client, clients |-> d.clients,
                     cfg |-> d.cfg, file |-> d.file, created |-> d.created]

\* str.lower() of the names that occur.
Lower(s) == IF s = ClientName THEN "tushare" ELSE s

\* key.startswith(source)
StartsWith(key, source) == key[1] = source

\* DataSourceFactory.clear_client_cache(source): the cache after it.
ClearedCache(cs, source) ==
    IF source = None THEN EmptyCache
    ELSE [k \in {j \in DOMAIN cs : ~StartsWith(j, source)} |-> cs[k]]

\* ... and the current client after it.
ClearedCurrent(current, source) ==
    IF current # NoClient /\ (source = None \/ Lower(ClientName) = Lower(source))
    THEN NoClient
    ELSE current

NoConfigCall == [called |-> FALSE]

NoGet == [called |-> FALSE]

NoSwitch == [called |-> FALSE]

NoCurrent == [called |-> FALSE]

FactoryRest ==
    /\ cfgFile = NoFile
    /\ cfgMem = NoConfig
    /\ clients = EmptyCache
    /\ current_client = NoClient
    /\ created = 0
    /\ factoryOps = 0
    /\ lastOp = "none"
    /\ lastConfig = NoConfigCall
    /\ lastGet = NoGet
    /\ lastSwitch = NoSwitch
    /\ lastCurrent = NoCurrent

\* Before the module is imported: a configuration file or none, no factory.
FactoryInit ==
    /\ cfgFile \in FileStates
    /\ cfgMem = NoConfig
    /\ clients = EmptyCache
    /\ current_client = NoClient
    /\ created = 0
    /\ factoryOps = 0
    /\ lastOp = "none"
    /\ lastConfig = NoConfigCall
    /\ lastGet = NoGet
    /\ lastSwitch = NoSwitch
    /\ lastCurrent = NoCurrent

notFactory == <<lockVars, clientVars, storeVars, staleVars, updateVars,
                schedVars, basicVars, tushareVars, apiVars, reportVars, waitVars, raceVars>>

\* data_source_factory = DataSourceFactory(): a process starts, with its
\* environment.
NewFactory ==
    /\ UNCHANGED notFactory
    /\ factoryOps < MaxFactoryOps
    /\ \E env_default_source \in EnvDefaults, env_token \in EnvTokens :
          LET c == DataSourceConfig(cfgFile, env_default_source, env_token) IN
          /\ cfgMem' = c.cfg
          /\ cfgFile' = c.file
          /\ lastConfig' = [called |-> TRUE, env_default |-> env_default_source,
                            env_token |-> env_token, file_before |-> cfgFile]
    /\ clients' = EmptyCache
    /\ current_client' = NoClient
    /\ factoryOps' = factoryOps + 1
    /\ lastOp' = "new"
    /\ lastGet' = NoGet
    /\ lastSwitch' = NoSwitch
    /\ lastCurrent' = NoCurrent
    /\ UNCHANGED created

\* data_source_factory.get_client('tushare', token)
GetClient ==
    /\ UNCHANGED notFactory
    /\ lastOp # "none"
    /\ factoryOps < MaxFactoryOps
    /\ \E token \in Tokens \cup {NoToken}, build \in BuildOutcomes :
          LET g == get_client(clients, cfgMem, cfgFile, created, token, build) IN
          /\ clients' = g.clients
          /\ cfgMem' = g.cfg
          /\ cfgFile' = g.file
          /\ created' = g.created
          /\ lastGet' = [called |-> TRUE, token |-> token, ok |-> g.ok,
                         result |-> g.client]
    /\ factoryOps' = factoryOps + 1
    /\ lastOp' = "get"
    /\ lastConfig' = NoConfigCall
    /\ lastCurrent' = NoCurrent
    /\ UNCHANGED <<current_client, lastSwitch>>

\* data_source_factory.switch_data_source(source, token)
SwitchDataSource ==
    /\ UNCHANGED notFactory
    /\ lastOp # "none"
    /\ factoryOps < MaxFactoryOps
    /\ \E source \in SwitchSources, token \in Tokens \cup {NoToken},
          build \in BuildOutcomes, build2 \in BuildOutcomes :
          LET r == switch_data_source(clients, cfgMem, cfgFile, created,
                                      current_client, source, token, build,
                                      build2)
          IN /\ clients' = r.clients
             /\ cfgMem' = r.cfg
             /\ cfgFile' = r.file
             /\ created' = r.created
             /\ current_client' = r.current
             /\ lastSwitch' = [called |-> TRUE, source |-> source,
                               failed |-> r.failed, raised |-> r.raised,
                               result |-> r.result]
    /\ factoryOps' = factoryOps + 1
    /\ lastOp' = "switch"
    /\ lastConfig' = NoConfigCall
    /\ lastGet' = NoGet
    /\ lastCurrent' = NoCurrent

\* data_source_factory.get_current_client()
GetCurrentClient ==
    /\ UNCHANGED notFactory
    /\ lastOp # "none"
    /\ factoryOps < MaxFactoryOps
    /\ \E build \in BuildOutcomes :
          LET g == IF current_client = NoClient
                   THEN get_client(clients, cfgMem, cfgFile, created, NoToken,
                                   build)
                   ELSE [ok |-> TRUE, client |-> current_client,
                         clients |-> clients, cfg |-> cfgMem, file |-> cfgFile,
                         created |-> created]
          IN /\ clients' = g.clients
             /\ cfgMem' = g.cfg
             /\ cfgFile' = g.file
             /\ created' = g.created
             /\ current_client' = g.client
             /\ lastCurrent' = [called |-> TRUE, ok |-> g.ok, result |-> g.client]
    /\ factoryOps' = factoryOps + 1
    /\ lastOp' = "current"
    /\ lastConfig' = NoConfigCall
    /\ lastGet' = NoGet
    /\ UNCHANGED lastSwitch

\* data_source_factory.clear_client_cache(source)
ClearClientCache ==
    /\ UNCHANGED notFactory
    /\ lastOp # "none"
    /\ factoryOps < MaxFactoryOps
    /\ \E source \in ClearSources :
          /\ clients' = ClearedCache(clients, source)
          /\ current_client' = ClearedCurrent(current_client, source)
    /\ factoryOps' = factoryOps + 1
    /\ lastOp' = "clear"
    /\ lastConfig' = NoConfigCall
    /\ lastGet' = NoGet
    /\ lastSwitch' = NoSwitch
    /\ lastCurrent' = NoCurrent
    /\ UNCHANGED <<cfgFile, cfgMem, created>>

FactoryNext ==
    \/ NewFactory
    \/ GetClient
    \/ SwitchDataSource
    \/ GetCurrentClient
    \/ ClearClientCache

(***************************************************************************)
(* data_fetching/tushare_adapter.py: TuShareClient, a BaseDataClient. The  *)
(* vendor (tushare.pro_api) is an input: a script of what its successive   *)
(* requests do, the last entry being repeated for any further request.     *)
(***************************************************************************)
MaxTsOps == 2

\* TuShareClient(token): self.pro is set when the library is there, a token
\* is known and ts.pro_api() does not raise.
TuShareClient(token, available, api) ==
    [token |-> token, available |-> available,
     pro |-> available /\ token # NoToken /\ api = "ok"]

TuShareClients ==
    {TuShareClient(token, available, api) :
        token \in {NoToken, <<"mock_tes", "t_token">>},
        available \in BOOLEAN, api \in {"ok", "raises"}}

ProReady_Always(client) == TRUE

\* TUSHARE_AVAILABLE and self.pro
ProReady(client) == client.available /\ client.pro

\* The script from its (n+1)-th request on.
Shift(script, n) ==
    IF n >= Len(script) THEN <<script[Len(script)]>>
    ELSE SubSeq(script, n + 1, Len(script))

\* fetch_concept_data: a frame with rows is returned, anything else the
\* vendor returns raises ValueError, what the vendor raises propagates.
FetchConcept(out) ==
    IF out = "frame" THEN out ELSE IF out \in Returns THEN "ValueError" ELSE out

\* One call of _get_<op>_impl after `calls` vendor requests: what it returns
\* or raises, the vendor requests it makes and the sleeps inside it.
ImplRun(client, op, script, calls) ==
    IF ~ProReady(client)
    THEN [out |-> "Exception", calls |-> 0, sleeps |-> <<>>]
    ELSE LET first == OutcomeAt(script, calls + 1)
             second == OutcomeAt(script, calls + 2)
         IN CASE op = "get_concept_sectors" ->
                   LET rest == Shift(script, calls)
                       r == retry_with_backoff(
                               [k \in DOMAIN rest |-> FetchConcept(rest[k])])
                   IN [out |-> IF r.raised = None THEN r.value ELSE r.raised,
                       calls |-> r.calls, sleeps |-> r.sleeps]
              [] op = "get_sector_stocks" ->
                   IF first = "frame"
                   THEN [out |-> "frame", calls |-> 1, sleeps |-> <<>>]
                   ELSE IF first \in Returns
                   THEN [out |-> IF second = "frame" THEN "frame" ELSE "Exception",
                         calls |-> 2, sleeps |-> <<>>]
                   ELSE [out |-> "Exception", calls |-> 1, sleeps |-> <<>>]
              [] OTHER ->
                   [out |-> IF first \in Returns \ {"frame"} THEN "Exception"
                            ELSE first,
                    calls |-> 1, sleeps |-> <<>>]

\* _retry_with_backoff(self._get_<op>_impl) from iteration retry on.
RECURSIVE TsRetryFrom(_, _, _, _, _, _)
TsRetryFrom(client, op, script, retry, slept, calls) ==
    IF retry >= max_retries
    THEN [calls |-> calls, sleeps |-> slept, raised |-> None,
          value |-> "not_a_frame"]
    ELSE LET a == ImplRun(client, op, script, calls)
             made == calls + a.calls
             sleeps == slept \o a.sleeps
         IN IF a.out \in Returns
            THEN [calls |-> made, sleeps |-> sleeps, raised |-> None,
                  value |-> a.out]
            ELSE IF IsNetworkError(a.out) /\ RetriesLeft(retry)
            THEN TsRetryFrom(client, op, script, retry + 1,
                             Append(sleeps, BackoffDelay(retry)), made)
            ELSE [calls |-> made, sleeps |-> sleeps, raised |-> a.out,
                  value |-> None]

\* A public contract operation of the client: what the caller gets, the
\* error record left behind, the vendor requests made and the time slept.
TushareCall(client, op, code, script) ==
    LET r == TsRetryFrom(client, op, script, 0, <<>>, 0) IN
    [called |-> TRUE, op |-> op,
     network_only |-> \A k \in DOMAIN script : IsNetworkError(script[k]),
     vendor_calls |-> r.calls, slept |-> SumSeq(r.sleeps),
     returned |-> IF r.raised = None THEN r.value ELSE "empty_frame",
     error |-> IF r.raised = None THEN NoRecord
               ELSE handle_request_error(r.raised, op, Context(op, code))]

NoTsCall == [called |-> FALSE]

TushareRest ==
    /\ tsClient = TuShareClient(NoToken, FALSE, "ok")
    /\ tsOps = 0
    /\ lastTs = NoTsCall

TushareInit ==
    /\ tsClient \in TuShareClients
    /\ tsOps = 0
    /\ lastTs = NoTsCall

notTushare == <<lockVars, storeVars, staleVars, updateVars, schedVars, basicVars, factoryVars, opsDone, ticksDone, lastCall, lastHealth, apiVars, reportVars, waitVars, raceVars>>

\* One of the six public operations is called on the client.
TushareOp ==
    /\ UNCHANGED notTushare
    /\ tsOps < MaxTsOps
    /\ \E op \in Ops, script \in Scripts :
          LET c == TushareCall(tsClient, op, "c1", script) IN
          /\ lastTs' = c
          /\ clientNow' = clientNow + c.slept
          /\ last_error' = IF c.error = NoRecord THEN last_error ELSE c.error
          /\ last_error_time' = IF c.error = NoRecord THEN last_error_time
                                ELSE clientNow + c.slept
    /\ tsOps' = tsOps + 1
    /\ UNCHANGED tsClient

TushareNext == TushareOp

(***************************************************************************)
(* backend/main.py: the endpoints GET /api/health and                      *)
(* GET /api/stocks/{code}/daily, over the stock_daily_data table, the      *)
(* database and the provider.                                              *)
(***************************************************************************)
MaxApiCalls == 2

\* db_storage.check_connection(): a string in both cases.
check_connection(db) == IF db = "up" THEN "connected" ELSE "disconnected"

\* bool(s) of a str
Truthy(s) == s # ""

\* The probe of health_check: ak_client.get_trade_dates(today, today) inside
\* try/except. get_trade_dates catches every exception itself and returns a
\* list, so the except branch is never taken.
ak_available(provider, cal, now) ==
    get_trade_dates(provider, cal, StrfDate(now), StrfDate(now)) \in Seq(Nat)

\* health_check(): the status and the services it reports.
health_check(tracked, tbl, now, db, provider, cal) ==
    LET db_connected == check_connection(db)
        available == ak_available(provider, cal, now)
        first_stock == CHOOSE c \in tracked : TRUE
    IN [status |-> IF Truthy(db_connected) /\ available THEN "healthy"
                   ELSE "degraded",
        akshare |-> IF available THEN "available" ELSE "unavailable",
        database |-> db_connected,
        data_status |-> IF tracked # {}
                           /\ is_data_outdated(tbl, first_stock, 1, now, db,
                                               provider, cal)
                        THEN "needs_update" ELSE "up_to_date"]

\* What db_storage.get_stock_daily_data returns without return_dataframe:
\* a list of dicts (a pandas DataFrame has kind "frame").
ListOf(bars) == [kind |-> "list", bars |-> bars]

\* Whether df.empty can be evaluated: a list has no attribute 'empty'.
HasEmpty(df) == df.kind = "frame"

\* get_single_stock_daily(stock_code, start_date, end_date): the status of
\* the response, its bars, and the table afterwards. Any exception inside
\* the handler becomes HTTPException(500).
get_single_stock_daily(tbl, code, start, end, now, db, provider, cal, flush) ==
    LET failed == [status |-> 500, data |-> <<>>, message |-> "error",
                   rows |-> tbl, saved |-> FALSE]
    IN IF db = "session_fails" THEN failed
       ELSE LET stored == IF db = "query_fails" THEN <<>>
                          ELSE get_stock_daily_data(tbl, code, start, end)
                df == ListOf(stored)
            IN IF ~HasEmpty(df) THEN failed
               ELSE IF df.bars # <<>>
               THEN [status |-> 200, data |-> df.bars, message |-> "success",
                     rows |-> tbl, saved |-> FALSE]
               ELSE LET fetched == ProviderBars(provider, cal, StrfDate(start),
                                                StrfDate(end))
                        s == SaveOn(db, tbl, code, fetched, flush)
                    IN IF fetched = <<>>
                       THEN [status |-> 200, data |-> <<>>,
                             message |-> "not found", rows |-> tbl,
                             saved |-> FALSE]
                       ELSE [status |-> 200, data |-> fetched,
                             message |-> "success", rows |-> s.rows,
                             saved |-> s.ok]

NoHealthCheck == [called |-> FALSE]

NoDaily == [called |-> FALSE]

ApiRest ==
    /\ apiCalls = 0
    /\ lastHealthCheck = NoHealthCheck
    /\ lastDaily = NoDaily

notApi == <<clientVars, locked, waiters, futDone, lockLoop, pc, runs, todo, update_results, last_full_update_time, svcNow, autoflush, savesDone, lastSave, lastRead, today, lastCheck, updateVars, schedVars, basicVars, factoryVars, tushareVars, reportVars, waitVars, raceVars>>

\* GET /api/health
HealthCheck ==
    /\ UNCHANGED notApi
    /\ apiCalls < MaxApiCalls
    /\ \E db \in DbStates, provider \in ProviderStates, cal \in VendorDays(today) :
          LET h == health_check(requested_stock_codes, rows, today, db,
                                provider, cal)
          IN lastHealthCheck' = [called |-> TRUE, db |-> db,
                                 provider |-> provider, status |-> h.status,
                                 akshare |-> h.akshare,
                                 database |-> h.database]
    /\ apiCalls' = apiCalls + 1
    /\ lastDaily' = NoDaily
    /\ UNCHANGED <<rows, requested_stock_codes>>

\* GET /api/stocks/{code}/daily?start_date=..&end_date=..
GetSingleStockDaily ==
    /\ UNCHANGED notApi
    /\ apiCalls < MaxApiCalls
    /\ \E code \in Codes, start \in Days, end \in Days, db \in DbStates,
          provider \in ProviderStates, cal \in VendorDays(today) :
          LET r == get_single_stock_daily(rows, code, start, end, today, db,
                                          provider, cal, autoflush)
          IN /\ start <= end
             /\ rows' = r.rows
             /\ requested_stock_codes' =
                   IF db = "session_fails" THEN requested_stock_codes
                   ELSE requested_stock_codes \cup {code}
             /\ lastDaily' =
                   [called |-> TRUE, db |-> db,
                    stored |-> Len(get_stock_daily_data(rows, code, start, end)),
                    fetched |-> Len(ProviderBars(provider, cal, StrfDate(start),
                                                 StrfDate(end))),
                    status |-> r.status, message |-> r.message,
                    returned |-> Len(r.data), saved |-> r.saved]
    /\ apiCalls' = apiCalls + 1
    /\ lastHealthCheck' = NoHealthCheck

ApiNext ==
    \/ HealthCheck
    \/ GetSingleStockDaily

(***************************************************************************)
(* analysis/polar_analyzer.py: PolarAnalyzer.generate_analysis_report.     *)
(* The three detectors and the change rate of the closing prices are       *)
(* inputs; rates and confidences are counted in 1/10000.                   *)
(***************************************************************************)
MaxReports == 2

\* The detectors of recognize_patterns, in the order they are tried, and
\* the pattern each one reports.
Detectors == <<"head_shoulder_top", "double_bottom", "ascending_triangle">>

PatternOf(name) ==
    [pattern_name |-> name,
     confidence |-> CASE name = "head_shoulder_top" -> 7500
                      [] name = "double_bottom" -> 8000
                      [] OTHER -> 8500,
     prediction |-> IF name = "head_shoulder_top" THEN "bearish" ELSE "bullish",
     details |-> <<<<"detected", name>>>>]

\* recognize_patterns(df): nothing from fewer than 20 bars.
recognize_patterns(enough, detected) ==
    IF ~enough THEN <<>>
    ELSE SelectSeq([i \in 1..Len(Detectors) |-> PatternOf(Detectors[i])],
                   LAMBDA p : p.pattern_name \in detected)

ChangeRates == {-1000, -733, -500, 0, 500, 620, 733, 1000}

Min(a, b) == IF a <= b THEN a ELSE b

Abs(a) == IF a < 0 THEN 0 - a ELSE a

\* predict_price_movement(df)
predict_price_movement(enough, change_rate) ==
    IF ~enough
    THEN [prediction |-> "neutral", confidence |-> 5000,
          reason |-> "insufficient data"]
    ELSE IF change_rate > 500
    THEN [prediction |-> "bullish",
          confidence |-> Min(5000 + change_rate * 5, 9000), reason |-> "trend"]
    ELSE IF change_rate < -500
    THEN [prediction |-> "bearish",
          confidence |-> Min(5000 + Abs(change_rate) * 5, 9000),
          reason |-> "trend"]
    ELSE [prediction |-> "neutral", confidence |-> 5000, reason |-> "trend"]

Format2_Truncated(confidence) == confidence \div 100

\* f"{confidence:.2f}": the number of hundredths, rounded to the nearest.
Format2(confidence) == (confidence + 50) \div 100

\* generate_analysis_report(stock_code, df): the rows it returns.
generate_analysis_report(code, empty, enough, detected, change_rate) ==
    IF empty THEN <<>>
    ELSE LET patterns == recognize_patterns(enough, detected)
             prediction == predict_price_movement(enough, change_rate)
             results == [i \in 1..Len(patterns) |->
                            [stock_code |-> code,
                             pattern_name |-> patterns[i].pattern_name,
                             confidence |-> patterns[i].confidence,
                             prediction |-> patterns[i].prediction,
                             details |-> patterns[i].details]]
         IN IF results = <<>> THEN results
            ELSE [results EXCEPT
                    ![1].prediction = prediction.prediction,
                    ![1].details =
                        @ \o <<<<"overall", prediction.prediction>>,
                               <<"confidence", Format2(prediction.confidence)>>,
                               <<"reason", prediction.reason>>>>]

NoReport == [called |-> FALSE]

ReportRest ==
    /\ reportsDone = 0
    /\ lastReport = NoReport

notReport == <<lockVars, clientVars, storeVars, staleVars, updateVars, schedVars, basicVars, factoryVars, tushareVars, apiVars, waitVars, raceVars>>

\* analyzer.generate_analysis_report(stock_code, df)
GenerateReport ==
    /\ UNCHANGED notReport
    /\ reportsDone < MaxReports
    /\ \E code \in Codes, empty \in BOOLEAN, enough \in BOOLEAN,
          detected \in SUBSET {Detectors[i] : i \in 1..Len(Detectors)},
          change_rate \in ChangeRates :
          /\ empty => ~enough
          /\ lastReport' =
                [called |-> TRUE,
                 patterns |-> IF empty THEN <<>>
                              ELSE recognize_patterns(enough, detected),
                 overall |-> predict_price_movement(enough, change_rate),
                 results |-> generate_analysis_report(code, empty, enough,
                                                      detected, change_rate)]
    /\ reportsDone' = reportsDone + 1

ReportNext == GenerateReport

(***************************************************************************)
(* backend/manual_update.py: wait_for_update_completion polling            *)
(* GET /api/data/status (backend/main.py: get_data_status).  What the      *)
(* service tracks and which of its stocks are outdated at the time of a    *)
(* poll are inputs, as is the time a request takes.                        *)
(***************************************************************************)
MaxWaits == 1
SampleSize == 5             \* list(requested_stock_codes)[:5]

PollIntervals == {30, 45}
Timeouts == {0, 60, 100}
RequestSeconds == {0, 1, 20}

\* list(requested_stock_codes)[:5]: any five of them when there are more.
Samples(tracked) ==
    {s \in SUBSET tracked :
        Cardinality(s) = Min(SampleSize, Cardinality(tracked))}

\* get_data_status(): the body of the 200 response.
get_data_status(tracked, sample, outdated) ==
    [requested_stocks_count |-> Cardinality(tracked),
     sample_stocks_status |->
        [c \in sample |-> IF c \in outdated THEN "needs_update"
                          ELSE "up_to_date"]]

\* check_data_status(): the body of a 200 response, or an error dict for
\* any other status code and for an exception of requests.get.
StatusReplies ==
    {[status |-> "error"]}
    \cup {get_data_status(tracked, sample, outdated) :
            <<tracked, sample, outdated>> \in
               {t \in (SUBSET Codes) \X (SUBSET Codes) \X (SUBSET Codes) :
                   t[2] \in Samples(t[1]) /\ t[3] \subseteq t[2]}}

\* status.get('sample_stocks_status'): None without the key; a dict is
\* truthy when it is not empty.
HasSampleStatus(status) ==
    /\ "sample_stocks_status" \in DOMAIN status
    /\ DOMAIN status.sample_stocks_status # {}

\* Mutant: one sampled stock up to date is enough.
AllUpToDate_Any(status) ==
    \E c \in DOMAIN status.sample_stocks_status :
        status.sample_stocks_status[c] = "up_to_date"

\* all(s == 'up_to_date' for s in status['sample_stocks_status'].values())
AllUpToDate(status) ==
    \A c \in DOMAIN status.sample_stocks_status :
        status.sample_stocks_status[c] = "up_to_date"

NoArgs == [poll_interval |-> 0, timeout |-> 0, start_time |-> 0]
NoStatus == [status |-> None]

WaitRest ==
    /\ waitPc = "idle"
    /\ waitClock = 0
    /\ waitArgs = NoArgs
    /\ lastStatus = NoStatus
    /\ waitSent = {}
    /\ waitResult = None
    /\ waitsDone = 0

notWait == <<lockVars, clientVars, storeVars, staleVars, updateVars, schedVars, basicVars, factoryVars, tushareVars, apiVars, reportVars, raceVars>>

\* wait_for_update_completion(poll_interval, timeout): start_time = time.time()
WaitStart ==
    /\ UNCHANGED notWait
    /\ waitPc = "idle"
    /\ waitsDone < MaxWaits
    /\ \E poll_interval \in PollIntervals, timeout \in Timeouts :
          waitArgs' = [poll_interval |-> poll_interval, timeout |-> timeout,
                       start_time |-> waitClock]
    /\ waitPc' = "test"
    /\ lastStatus' = NoStatus
    /\ waitSent' = {}
    /\ waitResult' = None
    /\ waitsDone' = waitsDone + 1
    /\ UNCHANGED waitClock

\* while time.time() - start_time < timeout: ...; after the loop return False
WaitTest ==
    /\ UNCHANGED notWait
    /\ waitPc = "test"
    /\ IF waitClock - waitArgs.start_time < waitArgs.timeout
       THEN /\ waitPc' = "poll"
            /\ UNCHANGED waitResult
       ELSE /\ waitPc' = "done"
            /\ waitResult' = "False"
    /\ UNCHANGED <<waitClock, waitArgs, lastStatus, waitSent, waitsDone>>

\* status = check_data_status(); return True when the sampled map is not
\* empty and all of it is up_to_date.
WaitPoll ==
    /\ UNCHANGED notWait
    /\ waitPc = "poll"
    /\ \E status \in StatusReplies, took \in RequestSeconds :
          /\ lastStatus' = status
          /\ waitClock' = waitClock + took
          /\ IF HasSampleStatus(status) /\ AllUpToDate(status)
             THEN /\ waitPc' = "done"
                  /\ waitResult' = "True"
             ELSE /\ waitPc' = "sleep"
                  /\ UNCHANGED waitResult
    /\ waitSent' = waitSent \cup {<<"GET", "/api/data/status">>}
    /\ UNCHANGED <<waitArgs, waitsDone>>

\* time.sleep(poll_interval)
WaitSleep ==
    /\ UNCHANGED notWait
    /\ waitPc = "sleep"
    /\ waitClock' = waitClock + waitArgs.poll_interval
    /\ waitPc' = "test"
    /\ UNCHANGED <<waitArgs, lastStatus, waitSent, waitResult, waitsDone>>

\* The caller goes on after the return; the script may wait again.
WaitReturn ==
    /\ UNCHANGED notWait
    /\ waitPc = "done"
    /\ waitPc' = "idle"
    /\ UNCHANGED <<waitClock, waitArgs, lastStatus, waitSent, waitResult,
                   waitsDone>>

\* A step of the running call.
WaitStep == WaitTest \/ WaitPoll \/ WaitSleep

WaitNext == WaitStart \/ WaitTest \/ WaitPoll \/ WaitSleep \/ WaitReturn

(***************************************************************************)
(* data_storage/db_storage.py: save_stock_daily_data called by a           *)
(* single-stock update and by a full update at once, each with the session *)
(* update_stock_data_incrementally opened for it.  Each writer saves one   *)
(* bar.  A save is two steps, the existence query and the commit; the      *)
(* single-stock update runs on the service loop, the full update there too *)
(* (POST /api/stocks/update) or in the scheduler thread; coroutines of one *)
(* loop do not interleave inside update_stock_data_incrementally, which    *)
(* has no await.                                                           *)
(***************************************************************************)
MaxWrites == 3      \* saves started in one behaviour, both writers together

Writers == {"single", "full"}

\* PostgreSQL's default, or the strictest level the engine could be given.
Isolations == {"READ COMMITTED", "SERIALIZABLE"}

\* The thread a writer runs on.
WriterThread(w) == IF w = "single" THEN "main" ELSE fullThread

\* The price level of the bars of a writer (the two fetches differ).
LevelOf(w) == IF w = "single" THEN 1 ELSE 2

\* The one-row tables a writer may save.
WriterItems(w) ==
    {[code |-> code,
      bar |-> BarTable("date", cols, LevelOf(w), <<d>>)[1]] :
        code \in {"c1"}, cols \in {Fields, Fields \ OptionalFields}, d \in Days}

NoItem == [code |-> None]

\* The pair (stock_code, trade_date) an item is for.
PairOf(item) == <<item.code, TradeDateOf(item.bar.trade_date)>>

\* Another coroutine of the same thread is inside its save.
SameThreadBusy(w) ==
    \E q \in Writers \ {w} : WriterThread(q) = WriterThread(w) /\ wPc[q] = "queried"

\* What the commit of writer w does: the row its query found is updated,
\* or a row is inserted (0).
CommitPlan(tbl, w) == wHit[w]

\* A serializable transaction fails at commit when a row of the pair it
\* looked up was committed by another session after the lookup.
SerializationFailure(w) ==
    /\ isolation = "SERIALIZABLE"
    /\ LET p == PairOf(wItem[w])
           Of(tbl) == SelectSeq(tbl, LAMBDA r : <<r.stock_code, r.trade_date>> = p)
       IN Of(table) # Of(wSeen[w])

RaceRest ==
    /\ isolation = "READ COMMITTED"
    /\ fullThread = "main"
    /\ table = <<>>
    /\ wPc = [w \in Writers |-> "idle"]
    /\ wItem = [w \in Writers |-> NoItem]
    /\ wHit = [w \in Writers |-> 0]
    /\ wSeen = [w \in Writers |-> <<>>]
    /\ wOk = [w \in Writers |-> None]
    /\ commitOrder = <<>>
    /\ wRuns = 0

\* database/connection.py builds the engine; its isolation level is a
\* setting of that module.  The full update runs where it was triggered.
RaceInit ==
    /\ isolation \in Isolations
    /\ fullThread \in {"main", "sched"}
    /\ table = <<>>
    /\ wPc = [w \in Writers |-> "idle"]
    /\ wItem = [w \in Writers |-> NoItem]
    /\ wHit = [w \in Writers |-> 0]
    /\ wSeen = [w \in Writers |-> <<>>]
    /\ wOk = [w \in Writers |-> None]
    /\ commitOrder = <<>>
    /\ wRuns = 0

notRace == <<lockVars, clientVars, storeVars, staleVars, updateVars, schedVars, basicVars, factoryVars, tushareVars, apiVars, reportVars, waitVars>>

\* save_stock_daily_data up to the existence query of its item:
\*   existing_data = db.query(StockDailyData).filter(...).first()
WriterQuery(w) ==
    /\ UNCHANGED notRace
    /\ wPc[w] \in {"idle", "done"}
    /\ wRuns < MaxWrites
    /\ ~SameThreadBusy(w)
    /\ \E item \in WriterItems(w) :
          /\ wItem' = [wItem EXCEPT ![w] = item]
          /\ wHit' = [wHit EXCEPT ![w] =
                         FirstMatch(table, item.code, PairOf(item)[2])]
    /\ wSeen' = [wSeen EXCEPT ![w] = table]
    /\ wPc' = [wPc EXCEPT ![w] = "queried"]
    /\ wOk' = [wOk EXCEPT ![w] = None]
    /\ wRuns' = wRuns + 1
    /\ UNCHANGED <<isolation, fullThread, table, commitOrder>>

\* The rest of save_stock_daily_data: the found row is changed or a new row
\* added, then db.commit(); an exception of the commit is answered with
\* db.rollback() and False.
WriterCommit(w) ==
    /\ UNCHANGED notRace
    /\ wPc[w] = "queried"
    /\ IF SerializationFailure(w)
       THEN /\ wOk' = [wOk EXCEPT ![w] = "False"]
            /\ UNCHANGED <<table, commitOrder>>
       ELSE /\ LET hit == CommitPlan(table, w) IN
               table' = IF hit # 0
                        THEN [table EXCEPT
                                ![hit] = UpdatedRow(table[hit], wItem[w].bar)]
                        ELSE Append(table,
                                    NewRow(wItem[w].code, PairOf(wItem[w])[2],
                                           wItem[w].bar))
            /\ commitOrder' = Append(commitOrder, w)
            /\ wOk' = [wOk EXCEPT ![w] = "True"]
    /\ wPc' = [wPc EXCEPT ![w] = "done"]
    /\ UNCHANGED <<isolation, fullThread, wItem, wHit, wSeen, wRuns>>

RaceNext == \E w \in Writers : WriterQuery(w) \/ WriterCommit(w)

(***************************************************************************)
(* Specifications: one per sub-system, the others at rest.                 *)
(***************************************************************************)
InitLock == LockInit /\ ClientInit /\ StoreRest /\ StaleRest /\ UpdateRest /\ SchedRest /\ BasicRest /\ FactoryRest /\ TushareRest /\ ApiRest /\ ReportRest /\ WaitRest /\ RaceRest

SpecLock == InitLock /\ [][LockNext]_vars

\* Every started coroutine keeps running: its thread is scheduled, its
\* provider calls return or raise, its sleeps end.
SpecLockFair == SpecLock /\ \A r \in Runners : WF_vars(RunnerStep(r))

InitClient == LockInit /\ ClientInit /\ StoreRest /\ StaleRest /\ UpdateRest /\ SchedRest /\ BasicRest /\ FactoryRest /\ TushareRest /\ ApiRest /\ ReportRest /\ WaitRest /\ RaceRest

SpecClient == InitClient /\ [][ClientNext]_vars

InitStore == LockInit /\ ClientInit /\ StoreInit /\ StaleRest /\ UpdateRest /\ SchedRest /\ BasicRest /\ FactoryRest /\ TushareRest /\ ApiRest /\ ReportRest /\ WaitRest /\ RaceRest

SpecStore == InitStore /\ [][StoreNext]_vars

InitStale == LockInit /\ ClientInit /\ StaleInit /\ UpdateRest /\ SchedRest /\ BasicRest /\ FactoryRest /\ TushareRest /\ ApiRest /\ ReportRest /\ WaitRest /\ RaceRest

SpecStale == InitStale /\ [][StaleNext]_vars

InitUpdate == LockInit /\ ClientInit /\ UpdateInit /\ SchedRest /\ BasicRest /\ FactoryRest /\ TushareRest /\ ApiRest /\ ReportRest /\ WaitRest /\ RaceRest

SpecUpdate == InitUpdate /\ [][UpdateNext]_vars

InitSched == LockInit /\ ClientInit /\ StoreRest /\ StaleRest /\ UpdateRest /\ SchedRest /\ BasicRest /\ FactoryRest /\ TushareRest /\ ApiRest /\ ReportRest /\ WaitRest /\ RaceRest

SpecSched == InitSched /\ [][SchedNext]_vars

\* The scheduler thread keeps running: a job returns or raises, a sleep ends.
SpecSchedFair == SpecSched /\ WF_vars(SchedNext)

InitSave == LockInit /\ ClientInit /\ StoreInit /\ StaleRest /\ UpdateRest /\ SchedRest /\ BasicRest /\ FactoryRest /\ TushareRest /\ ApiRest /\ ReportRest /\ WaitRest /\ RaceRest

SpecSave == InitSave /\ [][SaveNext]_vars

InitFactory == LockInit /\ ClientInit /\ StoreRest /\ StaleRest /\ UpdateRest /\ SchedRest /\ BasicRest /\ FactoryInit /\ TushareRest /\ ApiRest /\ ReportRest /\ WaitRest /\ RaceRest

SpecFactory == InitFactory /\ [][FactoryNext]_vars

InitTushare == LockInit /\ ClientInit /\ StoreRest /\ StaleRest /\ UpdateRest /\ SchedRest /\ BasicRest /\ FactoryRest /\ TushareInit /\ ApiRest /\ ReportRest /\ WaitRest /\ RaceRest

SpecTushare == InitTushare /\ [][TushareNext]_vars

InitApi == LockInit /\ ClientInit /\ StaleInit /\ UpdateRest /\ SchedRest /\ BasicRest /\ FactoryRest /\ TushareRest /\ ApiRest /\ ReportRest /\ WaitRest /\ RaceRest

SpecApi == InitApi /\ [][ApiNext]_vars

InitReport == LockInit /\ ClientInit /\ StoreRest /\ StaleRest /\ UpdateRest /\ SchedRest /\ BasicRest /\ FactoryRest /\ TushareRest /\ ApiRest /\ ReportRest /\ WaitRest /\ RaceRest

SpecReport == InitReport /\ [][ReportNext]_vars

InitWait == LockInit /\ ClientInit /\ StoreRest /\ StaleRest /\ UpdateRest /\ SchedRest /\ BasicRest /\ FactoryRest /\ TushareRest /\ ApiRest /\ ReportRest /\ WaitRest /\ RaceRest

SpecWait == InitWait /\ [][WaitNext]_vars

\* A request is answered or fails, a sleep ends, the script is scheduled.
SpecWaitFair == SpecWait /\ WF_vars(WaitStep)

InitRace == LockInit /\ ClientInit /\ StoreRest /\ StaleRest /\ UpdateRest /\ SchedRest /\ BasicRest /\ FactoryRest /\ TushareRest /\ ApiRest /\ ReportRest /\ WaitRest /\ RaceInit

SpecRace == InitRace /\ [][RaceNext]_vars

(***************************************************************************)
(* Claims.                                                                 *)
(***************************************************************************)

\* C1: at most one execution of update_all_stocks_data is inside the section
\* guarded by update_lock at any time, whichever loop or thread started it.
C1_AtMostOneInGuarded ==
    Cardinality({r \in Runners : InGuarded(r)}) <= 1

\* C2: after any sequence of save_stock_daily_data calls the table holds at
\* most one row per (stock code, trade date), also when dates are saved
\* again and when one call's input lists a date twice.
C2_OneRowPerCodeAndDate ==
    \A i \in 1..Len(rows), j \in 1..Len(rows) :
        (rows[i].stock_code = rows[j].stock_code
         /\ rows[i].trade_date = rows[j].trade_date) => i = j

\* Index of the last item of a bar table that is for day d.
LastItemFor(items, d) ==
    CHOOSE k \in 1..Len(items) :
        /\ TradeDateOf(items[k].trade_date) = d
        /\ \A j \in 1..Len(items) : TradeDateOf(items[j].trade_date) = d => j <= k

\* C3: after a bar table was saved for a code, reading that code over a date
\* range returns one row per saved date, in ascending date order, whose
\* values are the ones given in the latest save for that date.
C3_SaveThenReadRoundTrip ==
    (lastRead.called /\ lastSave.called /\ lastSave.ok)
    => LET res == lastRead.result
           items == lastSave.items
           saved == {TradeDateOf(items[k].trade_date) : k \in 1..Len(items)}
                        \cap lastRead.start..lastRead.end
       IN /\ \A i \in 1..Len(res), j \in 1..Len(res) :
                 i < j => res[i].trade_date < res[j].trade_date
          /\ \A d \in saved :
                \E i \in 1..Len(res) :
                    /\ res[i].trade_date = d
                    /\ \A f \in DOMAIN items[LastItemFor(items, d)].vals :
                          res[i].vals[f] = items[LastItemFor(items, d)].vals[f]

\* C4: when the wrapped function raises a network-class error on its first
\* two calls and then returns a value, _retry_with_backoff calls it exactly
\* three times, returns that value, and sleeps 2 s then 4 s and no more.
C4_TwoFailuresThenValue ==
    (/\ lastCall.op # None
     /\ Len(lastCall.script) = 3
     /\ lastCall.script[1] \in NetworkErrors
     /\ lastCall.script[2] \in NetworkErrors
     /\ lastCall.script[3] \in Returns)
    => /\ lastCall.calls = 3
       /\ lastCall.raised = None
       /\ lastCall.value = lastCall.script[3]
       /\ lastCall.sleeps = <<2, 4>>

C4_Witness ==
    /\ lastCall.op # None
    /\ lastCall.script = <<"ConnectionError", "TimeoutError", "frame">>
    /\ lastCall.calls = 3
    /\ lastCall.value = "frame"

AlwaysNetwork(script) == \A k \in 1..Len(script) : script[k] \in NetworkErrors

\* C5 as stated: when the vendor call keeps failing with a network-class
\* error the call is retried with backoff delays of 2 s, 4 s and 8 s before
\* the wrapper returns an empty result and records the error.
C5_DelaysTwoFourEight ==
    (lastCall.op # None /\ AlwaysNetwork(lastCall.script))
    => /\ lastCall.sleeps = <<2, 4, 8>>
       /\ lastCall.returned = "empty_frame"
       /\ last_error = lastCall.error

\* C5 amended: when the implementation keeps failing with a network-class
\* error it is called three times in all, with sleeps of 2 s and 4 s between
\* the calls and none after the third; only then is the failure re-raised to
\* the public wrapper, which returns an empty result and records the error.
C5_ThreeAttemptsTwoSleeps ==
    (lastCall.op # None /\ AlwaysNetwork(lastCall.script))
    => /\ lastCall.calls = 3
       /\ lastCall.sleeps = <<2, 4>>
       /\ lastCall.raised \in NetworkErrors
       /\ lastCall.recorded # NoRecord
       /\ lastCall.returned = "empty_frame"
       /\ last_error = lastCall.error
       /\ last_error.exception_type = lastCall.raised
       /\ last_error_time = clientNow

C5_Witness ==
    /\ lastCall.op # None
    /\ lastCall.script = <<"ConnectionError">>
    /\ lastCall.calls = 3
    /\ lastCall.returned = "empty_frame"

\* C6: when the wrapped implementation raises an exception that is not
\* network-class, _retry_with_backoff makes exactly one attempt: no sleep,
\* no second call, the error is recorded and re-raised.
C6_NoRetryOfOtherErrors ==
    (lastCall.op # None /\ lastCall.script[1] \in OtherErrors)
    => /\ lastCall.calls = 1
       /\ lastCall.sleeps = <<>>
       /\ lastCall.raised = lastCall.script[1]
       /\ lastCall.recorded # NoRecord
       /\ lastCall.recorded.exception_type = lastCall.script[1]

C6_Witness ==
    /\ lastCall.op # None
    /\ lastCall.script = <<"ValueError">>
    /\ lastCall.calls = 1
    /\ lastCall.raised = "ValueError"

\* C7: no public contract operation propagates an exception of its
\* implementation: it returns an empty table, and afterwards the last-error
\* record holds the message, the exception type name and the call context,
\* and the error timestamp is set.
C7_FailureIsEmptyResultPlusRecord ==
    (lastCall.op # None /\ lastCall.raised # None)
    => /\ lastCall.propagated = None
       /\ lastCall.returned = "empty_frame"
       /\ last_error # NoRecord
       /\ last_error.message = <<lastCall.op, "failed", lastCall.raised>>
       /\ last_error.exception_type = lastCall.raised
       /\ last_error.context = Context(lastCall.op, "c1")
       /\ last_error_time # NoTime
       /\ last_error_time = clientNow

C7_Witness ==
    /\ lastCall.op = "get_stock_daily_data"
    /\ lastCall.raised = "ValueError"
    /\ last_error # NoRecord
    /\ last_error.context = Context("get_stock_daily_data", "c1")

\* C8: is_healthy returns false whenever the last error is less than 300 s
\* old; otherwise it returns true with check_api unset, and with check_api
\* set it returns true only if the live get_stock_basic_info call returned
\* a non-empty table.
C8_HealthyOnlyOnNonEmptyProbe ==
    lastHealth.called
    => /\ lastHealth.recent => ~lastHealth.result
       /\ (~lastHealth.recent /\ ~lastHealth.check_api) => lastHealth.result
       /\ (~lastHealth.recent /\ lastHealth.check_api)
             => (lastHealth.result => lastHealth.probe = "frame")

\* The latest date stored for the stock of the latest check.
CheckedLatest == get_latest_stock_date(rows, lastCheck.code)

\* The trading days the calendar lists from the day after the latest stored
\* date up to today.
ListedInGap == {d \in lastCheck.calendar : CheckedLatest + 1 <= d /\ d <= today}

\* C9: with the database and the calendar available, is_data_outdated is
\* true for a stock with no stored date, false for a stock whose latest
\* stored date is today, and for a latest stored date more than the
\* threshold before today it is true exactly when the calendar lists a
\* trading day after the latest stored date and up to today.
C9_OutdatedIffTradingDayInGap ==
    (lastCheck.called /\ lastCheck.db = "up" /\ lastCheck.provider = "ok")
    => /\ CheckedLatest = NoTime => lastCheck.result
       /\ CheckedLatest = today => ~lastCheck.result
       /\ (CheckedLatest # NoTime /\ today - CheckedLatest > lastCheck.threshold)
             => (lastCheck.result <=> ListedInGap # {})

C9_Witness ==
    /\ lastCheck.called /\ lastCheck.db = "up" /\ lastCheck.provider = "ok"
    /\ CheckedLatest # NoTime
    /\ today - CheckedLatest > lastCheck.threshold
    /\ lastCheck.calendar # {}
    /\ ListedInGap = {}
    /\ ~lastCheck.result

\* C10: if a step of the staleness check fails (the session, the query of
\* the latest date, or the trading calendar needed for a stock whose latest
\* stored date is older than the threshold), the check reports true.
C10_FailureMeansOutdated ==
    (/\ lastCheck.called
     /\ \/ lastCheck.db # "up"
        \/ /\ lastCheck.provider = "fails"
           /\ CheckedLatest # NoTime
           /\ today - CheckedLatest > lastCheck.threshold)
    => lastCheck.result

C12_ReplyReportsOutcome ==
    lastReply.called => (lastReply.status = "success" <=> lastReply.updated)

\* C13: a full update that runs to completion attempts an incremental
\* update for every code that was in the tracked set when it started, also
\* for codes that are not in the provider's stock list.
C13_FullUpdateCoversTracked ==
    (lastFull.called /\ lastFull.finished)
    => lastFull.tracked \subseteq lastFull.attempted

\* The ticks at which a job falls due.
TriggerTimes == {t \in 1..Horizon : \E j \in Jobs : t % DayTicks = JobSlots[j]}

SaveRaised(sv) == sv.db # "up" \/ sv.before < sv.rows

\* C15: if processing a row of a save_stock_daily_data or
\* save_stock_basic_info call raises (an unparsable trade date, a missing
\* key, a database error), the call returns false and its table is as it
\* was before the call: no row of the call is persisted, the rows processed
\* before the failing one included.
C15_FailedSaveIsRolledBack ==
    [][/\ (savesDone' = savesDone + 1 /\ SaveRaised(lastSave'))
            => (~lastSave'.ok /\ rows' = rows)
       /\ (basicSaves' = basicSaves + 1 /\ SaveRaised(lastBasic'))
            => (~lastBasic'.ok /\ stocks' = stocks)]_vars

C15_Witness ==
    /\ autoflush
    /\ lastSave.called /\ ~lastSave.ok /\ lastSave.db = "up"
    /\ 0 < lastSave.before /\ lastSave.before < lastSave.rows
    /\ rows # <<>>

\* The same for save_stock_basic_info: a stock of the list was processed
\* before an item without code.
C15_WitnessBasic ==
    /\ autoflush
    /\ lastBasic.called /\ ~lastBasic.ok /\ lastBasic.db = "up"
    /\ 0 < lastBasic.before /\ lastBasic.before < lastBasic.rows
    /\ stocks # <<>>

\* C16: get_client with a token returns a client constructed with that
\* token, so that two different tokens never share a client instance.
C16_OwnClientPerToken ==
    (lastGet.called /\ lastGet.ok /\ lastGet.token # NoToken)
        => lastGet.result.token = lastGet.token

\* C17: switch_data_source with a source other than 'tushare' raises
\* ValueError and leaves the current client, the client cache and the
\* configuration file as they were.
C17_UnsupportedSwitchChangesNothing ==
    [][ (lastOp' = "switch" /\ factoryOps' = factoryOps + 1
            /\ lastSwitch'.source # DATA_SOURCE_TUSHARE)
        => /\ lastSwitch'.raised = "ValueError"
           /\ current_client' = current_client
           /\ clients' = clients
           /\ cfgFile' = cfgFile ]_vars

C17_Witness ==
    /\ lastOp = "switch"
    /\ lastSwitch.source = "INVALID_SOURCE"
    /\ lastSwitch.raised = "ValueError"
    /\ current_client # NoClient
    /\ DOMAIN clients # {}

\* A switch whose try block ran to its return statement.
SwitchSucceeded ==
    lastSwitch.called /\ lastSwitch.raised = None /\ ~lastSwitch.failed

C20_EnvDefaultNotWritten ==
    (lastConfig.called /\ lastConfig.env_default = DATA_SOURCE_TUSHARE
        /\ lastConfig.file_before.exists)
        => /\ cfgMem.default_source = DATA_SOURCE_TUSHARE
           /\ cfgFile.default_source = lastConfig.file_before.default_source

\* C30: the error record and its timestamp of a provider client are only
\* ever replaced by a newer error, never cleared by a successful call;
\* is_healthy returns false whenever it is called less than 300 s after the
\* latest error recorded before it, whatever succeeded in between.
C30_ErrorRecordOutlivesSuccess ==
    /\ []((lastHealth.called /\ lastHealth.error_time # NoTime
              /\ lastHealth.at - lastHealth.error_time < HealthWindow)
            => ~lastHealth.result)
    /\ [][(last_error # NoRecord)
            => /\ last_error' # NoRecord
               /\ last_error_time' # NoTime
               /\ (last_error' # last_error \/ last_error_time' # last_error_time)
                     => /\ lastCall'.op # None
                        /\ lastCall'.error = last_error'
                        /\ last_error_time' >= last_error_time]_vars

C30_Witness ==
    /\ lastHealth.called
    /\ ~lastHealth.result
    /\ last_error # NoRecord
    /\ lastCall.op # None
    /\ lastCall.error = NoRecord
    /\ lastCall.returned = "frame"

C27_ThreeAttemptsAtMost ==
    (lastTs.called /\ lastTs.network_only)
        => /\ lastTs.vendor_calls <= max_retries
           /\ lastTs.slept <= BackoffDelay(0) + BackoffDelay(1)

\* C22: GET /api/health reports 'healthy' exactly when the database
\* connectivity check succeeded and the provider probe succeeded, and
\* 'degraded' otherwise.
C22_HealthyMeansBothUp ==
    lastHealthCheck.called
        => /\ lastHealthCheck.status \in {"healthy", "degraded"}
           /\ lastHealthCheck.status = "healthy"
                 <=> (lastHealthCheck.db = "up" /\ lastHealthCheck.provider = "ok")

\* C23: with the database answering, GET /api/stocks/{code}/daily returns
\* the stored bars of the range when there are some; when there are none
\* and the provider has bars, it stores them and returns them, in a success
\* response in both cases.
C23_DailyFromStoreOrProvider ==
    (lastDaily.called /\ lastDaily.db = "up")
        => /\ lastDaily.stored > 0
                 => /\ lastDaily.status = 200
                    /\ lastDaily.message = "success"
                    /\ lastDaily.returned = lastDaily.stored
           /\ (lastDaily.stored = 0 /\ lastDaily.fetched > 0)
                 => /\ lastDaily.status = 200
                    /\ lastDaily.message = "success"
                    /\ lastDaily.saved
                    /\ lastDaily.returned = lastDaily.fetched

\* C25: generate_analysis_report returns one row per detected pattern, in
\* order; the first row carries the overall prediction and the pattern's
\* details followed by the overall prediction, its confidence with two
\* decimals and its reason; every other row keeps the prediction and the
\* details of its pattern.
C25_OnlyFirstRowCarriesOverall ==
    lastReport.called
        => LET ps == lastReport.patterns
               rs == lastReport.results
               o == lastReport.overall
           IN /\ Len(rs) = Len(ps)
              /\ \A i \in 1..Len(rs) :
                    /\ rs[i].pattern_name = ps[i].pattern_name
                    /\ rs[i].confidence = ps[i].confidence
                    /\ IF i = 1
                       THEN /\ rs[i].prediction = o.prediction
                            /\ rs[i].details =
                                  ps[i].details \o
                                  <<<<"overall", o.prediction>>,
                                    <<"confidence",
                                      CHOOSE h \in 0..100 :
                                         /\ 100 * h - 50 <= o.confidence
                                         /\ o.confidence < 100 * h + 50>>,
                                    <<"reason", o.reason>>>>
                       ELSE /\ rs[i].prediction = ps[i].prediction
                            /\ rs[i].details = ps[i].details

C25_Witness ==
    /\ lastReport.called
    /\ Len(lastReport.results) >= 2
    /\ lastReport.overall.confidence = 8665
    /\ lastReport.results[1].prediction # lastReport.patterns[1].prediction

\* The codes a run has attempted so far, in order.
AttemptedCodes(results) == [i \in 1..Len(results) |-> results[i][1]]

\* C29: last_full_update_time changes only in the step of a full update that
\* has attempted every code of the universe it fetched; a step of the loop,
\* failed or not, adds one result entry and goes on with the remaining codes
\* of the same universe; a run that leaves at the fetch (empty universe or
\* exception) leaves last_full_update_time as it was.
C29_StampOnlyAfterWholeUniverse ==
    [][/\ last_full_update_time' # last_full_update_time
            => \E r \in Runners :
                  /\ pc[r] = "finish" /\ pc'[r] = "idle"
                  /\ todo[r] = <<>>
                  /\ AttemptedCodes(update_results[r]) \in Universes \ {<<>>}
       /\ \A r \in Runners :
            /\ pc[r] = "fetch" /\ pc'[r] = "update"
                  => /\ todo'[r] \in Universes \ {<<>>}
                     /\ update_results'[r] = <<>>
            /\ pc[r] = "update"
                  => /\ pc'[r] \in {"update", "finish"}
                     /\ AttemptedCodes(update_results'[r]) \o todo'[r]
                           = AttemptedCodes(update_results[r]) \o todo[r]
                     /\ pc'[r] = "finish" <=> todo'[r] = <<>>
                     /\ Len(update_results'[r]) \in
                           {Len(update_results[r]), Len(update_results[r]) + 1}
            /\ pc[r] = "fetch" /\ pc'[r] = "idle"
                  => last_full_update_time' = last_full_update_time]_vars

\* A run that had a per-stock failure reaches the end of its universe, after
\* an earlier run stamped the time.
C29_Witness ==
    /\ last_full_update_time # NoTime
    /\ \E r \in Runners :
          /\ pc[r] = "finish"
          /\ Len(update_results[r]) = 2
          /\ update_results[r][1][2] = FALSE

\* C28: a full update that was requested, on the service loop, in the
\* scheduler thread or in a test thread, eventually enters the guarded
\* section, the lock being released on every exit path of the run before it.
C28_RequestedUpdateEnters ==
    \A r \in Runners : (pc[r] = "acquire") ~> InGuarded(r)

C26_OneRowLastCommitWins ==
    (/\ \A w \in Writers : wPc[w] = "done"
     /\ PairOf(wItem["single"]) = PairOf(wItem["full"])
     /\ commitOrder # <<>>)
        => LET p == PairOf(wItem["single"])
               hits == {k \in 1..Len(table) :
                           <<table[k].stock_code, table[k].trade_date>> = p}
               last == wItem[commitOrder[Len(commitOrder)]].bar
           IN /\ Cardinality(hits) = 1
              /\ \A k \in hits : \A f \in DOMAIN last.vals :
                    table[k].vals[f] = last.vals[f]

====
